---------------------------- MODULE Spec2Model ----------------------------
(***************************************************************************)
(* RackPower-Architect: the Dashboard's device list and PDU configuration  *)
(* as a state machine, with the sizing rule (calculatedPduPairs), the      *)
(* socket auto-wiring engine (runAutoConnect), the wiring compaction pass  *)
(* (optimizeWiring) and the manual edits (handleMoveDevice,                *)
(* handleConnectionUpdate).                                                *)
(*                                                                         *)
(* Numbers.  Watts are integers.  powerFactor is kept in hundredths (the   *)
(* slider's step is 0.01) and safetyMargin in percent, so that             *)
(*   load <= basePduCapacity * powerFactor * (safetyMargin / 100)          *)
(* is the exact integer comparison                                         *)
(*   load * 10000 <= basePduCapacity * powerFactor * safetyMargin.         *)
(* Pixel coordinates are kept doubled, so the halves of the source are     *)
(* integers.  A PDU id `A3` is the pair <<"A", 3>>.  A null uPosition is   *)
(* NullU, a null connection is NullConn.                                   *)
(***************************************************************************)
EXTENDS Integers, Sequences, FiniteSets, TLC

VARIABLES
    csvInput,               \* the devices parseCSV reads     Dashboard.tsx:23
    effectPending,          \* the effect on csvInput is due  Dashboard.tsx:547
    optimization,           \* OptimizationResult of a rack   csvParser.ts:140
    activeDevices,          \* Device[]                       Dashboard.tsx:26
    rackSize,               \*                                Dashboard.tsx:29
    baseSocketsPerPDU,      \*                                Dashboard.tsx:32
    secondarySocketsPerPDU, \*                                Dashboard.tsx:35
    manualPduPairs,         \* number | null (NoManual)       Dashboard.tsx:38
    pduCols,                \*                                Dashboard.tsx:39
    basePduCapacity,        \*                                Dashboard.tsx:45
    safetyMargin,           \* percent                        Dashboard.tsx:46
    powerFactor,            \* hundredths                     Dashboard.tsx:47
    pduVoltage,             \*                                Dashboard.tsx:50
    pduCircuitCount,        \*                                Dashboard.tsx:53
    pduCircuitAmps,         \*                                Dashboard.tsx:56
    socketType,             \*                                Dashboard.tsx:59
    secondarySocketType,    \*                                Dashboard.tsx:60
    lastOp                  \* the handler that ran last and the branch it took

config == <<rackSize, baseSocketsPerPDU, secondarySocketsPerPDU, manualPduPairs,
            pduCols, basePduCapacity, safetyMargin, powerFactor, pduVoltage,
            pduCircuitCount, pduCircuitAmps, socketType, secondarySocketType>>

vars == <<csvInput, effectPending, optimization, activeDevices, config, lastOp>>

-----------------------------------------------------------------------------
(* Bounds of the model. *)

\* Most devices in a loaded device list.
MaxDevices == 3

\* Most devices in a device list that is then edited by hand.
MaxEditDevices == 2

\* Most devices in a device list handed to the compaction pass on its own.
MaxCompactDevices == 2

\* the rows of DEFAULT_CSV the Dashboard starts with
MaxDefaultDevices == 2

\* the plus button stops at this many PDU pairs
MaxPairs == 3

\* Most devices in a rack handed to optimizePowerDistribution.
MaxPackDevices == 4

-----------------------------------------------------------------------------
(* Geometry constants of the Dashboard (pixels). *)

U_HEIGHT_PX == 30
RACK_HEADER_HEIGHT == 16
PDU_HEADER_H == 40
PDU_FOOTER_H == 40
SOCKET_H == 14
SOCKET_GAP == 4
SOCKET_PADDING == 8
PDU_VERTICAL_GAP == 20

-----------------------------------------------------------------------------
(* Values and small helpers. *)

NullU == -1
NoManual == -1
NullConn == [pduId |-> <<"-", 0>>, socketIndex |-> -1]

\* optimizePowerDistribution has not been called
NoOptimization == [pduPairs |-> <<>>, unassignedDevices |-> <<>>]

\* `${side}${k+1}` for the 0-based pair index k
PduId(side, k) == <<side, k + 1>>

\* JavaScript's !d.uPosition : null and 0 are both falsy
NotPlaced(d) == d.uPosition = NullU \/ d.uPosition = 0

Max2(a, b) == IF a >= b THEN a ELSE b
Min2(a, b) == IF a <= b THEN a ELSE b
Abs(x) == IF x < 0 THEN -x ELSE x

\* Math.ceil(a / b) for a >= 0, b > 0
CeilDiv(a, b) == (a + b - 1) \div b

RECURSIVE SumSeq(_)
SumSeq(s) == IF s = <<>> THEN 0 ELSE Head(s) + SumSeq(Tail(s))

\* devices.reduce((sum, d) => sum + d.powerRatingPerDevice, 0)
TotalMaxPower(devices) == SumSeq([i \in 1..Len(devices) |-> devices[i].powerRatingPerDevice])

\* devices.reduce((sum, d) => sum + d.psuCount, 0)
TotalPSUs(devices) == SumSeq([i \in 1..Len(devices) |-> devices[i].psuCount])

\* psuConnections[i], undefined read as null
ConnOf(d, i) == IF i \in DOMAIN d.psuConnections THEN d.psuConnections[i] ELSE NullConn


-----------------------------------------------------------------------------
(* Capacity sizing: calculatedPduPairs, activePduPairs.                    *)

\* basePduCapacity * powerFactor * (safetyMargin / 100), times 10000
EffectiveCapacityScaled == basePduCapacity * powerFactor * safetyMargin

\* baseSocketsPerPDU + secondarySocketsPerPDU
TotalSocketsPerPDU == baseSocketsPerPDU + secondarySocketsPerPDU

\* Math.ceil(totalMaxPower / effectiveCapacity)
PairsByPower(devices) == CeilDiv(TotalMaxPower(devices) * 10000, EffectiveCapacityScaled)

\* Math.ceil((totalPSUs / 2) / totalSocketsPerPDU)
PairsBySockets(devices) == CeilDiv(TotalPSUs(devices), 2 * TotalSocketsPerPDU)

\* the sizing with both quotients rounded down
CalcPairsFloor(devices) ==
    Max2(1, Max2((TotalMaxPower(devices) * 10000) \div EffectiveCapacityScaled,
                 TotalPSUs(devices) \div (2 * TotalSocketsPerPDU)))

\* Math.max(1, pairsByPower, pairsBySockets)
CalcPairs(devices) == Max2(1, Max2(PairsByPower(devices), PairsBySockets(devices)))

calculatedPduPairs == CalcPairs(activeDevices)

activePduPairs == IF manualPduPairs # NoManual THEN manualPduPairs ELSE calculatedPduPairs

-----------------------------------------------------------------------------
(* getPDUSocketY: the Y coordinate of a socket, doubled.                   *)

\* contentH for the given number of rows, inside the header, paddings and footer
PduHeightOfRows(rows) ==
    PDU_HEADER_H + SOCKET_PADDING + ((rows * SOCKET_H) + ((rows - 1) * SOCKET_GAP))
    + SOCKET_PADDING + PDU_FOOTER_H

\* rows = Math.ceil(socketCount / pduCols)
getPDUHeight(socketCount) == PduHeightOfRows(CeilDiv(socketCount, pduCols))

\* startY + pduTopY + socketOffset, doubled, for a PDU of height singlePduHeight:
\*   startY       = Math.max(0, (rackHeightPx - totalGroupHeight) / 2)
\*   pduTopY      = startY + pduIndex * (singlePduHeight + PDU_VERTICAL_GAP)
\*   socketOffset = PDU_HEADER_H + SOCKET_PADDING + row * (SOCKET_H + SOCKET_GAP)
\*                  + SOCKET_H / 2
SocketYOfHeight(singlePduHeight, pduIndex, socketIndex, numPairs, rackSizeU) ==
    Max2(0, ((rackSizeU * U_HEIGHT_PX) + (RACK_HEADER_HEIGHT * 2))
            - ((numPairs * singlePduHeight) + ((numPairs - 1) * PDU_VERTICAL_GAP)))
    + (2 * pduIndex * (singlePduHeight + PDU_VERTICAL_GAP))
    + (2 * (PDU_HEADER_H + SOCKET_PADDING + ((socketIndex \div pduCols) * (SOCKET_H + SOCKET_GAP))))
    + SOCKET_H

getPDUSocketY(pduIndex, socketIndex, numPairs, totalSocketsPerPDU, rackSizeU) ==
    SocketYOfHeight(getPDUHeight(totalSocketsPerPDU), pduIndex, socketIndex, numPairs, rackSizeU)

\* topPx + (d.uHeight * U_HEIGHT_PX) / 2, doubled
DeviceCenterY(d) ==
    2 * (RACK_HEADER_HEIGHT + ((rackSize - d.uPosition) * U_HEIGHT_PX))
    + (d.uHeight * U_HEIGHT_PX)

-----------------------------------------------------------------------------
(* optimizeWiring: the wiring compaction pass.                             *)

\* the entry pushed on pduMap for connection p of device i
EntryOf(devices, i, p) ==
    [dev |-> i, psuIndex |-> p, uPos |-> devices[i].uPosition,
     pduId |-> devices[i].psuConnections[p].pduId,
     socketIndex |-> devices[i].psuConnections[p].socketIndex]

\* pduMap: one entry per non-null connection of a placed device
WiringEntries(devices) ==
    UNION { { EntryOf(devices, i, p) :
                p \in { q \in DOMAIN devices[i].psuConnections :
                          devices[i].psuConnections[q] # NullConn } } :
            i \in { j \in 1..Len(devices) : ~NotPlaced(devices[j]) } }

\* the order in which devices.forEach / Object.entries push the entries
PushedBefore(f, e) == f.dev < e.dev \/ (f.dev = e.dev /\ f.psuIndex < e.psuIndex)

\* sortFn with ties broken by descending socket index
SortsBeforeTieDescending(f, e) ==
    \/ f.uPos > e.uPos
    \/ f.uPos = e.uPos /\ f.socketIndex > e.socketIndex
    \/ f.uPos = e.uPos /\ f.socketIndex = e.socketIndex /\ PushedBefore(f, e)

\* sortFn with the U positions ascending
SortsBeforeBottomFirst(f, e) ==
    \/ f.uPos < e.uPos
    \/ f.uPos = e.uPos /\ f.socketIndex < e.socketIndex
    \/ f.uPos = e.uPos /\ f.socketIndex = e.socketIndex /\ PushedBefore(f, e)

\* sortFn: U position descending, then socket index ascending; the sort is stable
SortsBefore(f, e) ==
    \/ f.uPos > e.uPos
    \/ f.uPos = e.uPos /\ f.socketIndex < e.socketIndex
    \/ f.uPos = e.uPos /\ f.socketIndex = e.socketIndex /\ PushedBefore(f, e)

\* (a, b) => a - b over the used socket indices, stable
SocketBefore(f, e) ==
    \/ f.socketIndex < e.socketIndex
    \/ f.socketIndex = e.socketIndex /\ SortsBefore(f, e)

\* all connections of the entry's PDU, without the split into zones
ZoneOfWholePdu(e, entries, baseSockets) == { f \in entries : f.pduId = e.pduId }

\* primaryConns / secondaryConns of the entry's PDU: the zone the entry is in
ZoneOf(e, entries, baseSockets) ==
    { f \in entries : /\ f.pduId = e.pduId
                      /\ (f.socketIndex < baseSockets) = (e.socketIndex < baseSockets) }

\* the entry at position i of the sorted zone gets the i-th socket of the zone
CompactedSocketDense(e, entries, baseSockets) ==
    (IF e.socketIndex < baseSockets THEN 0 ELSE baseSockets)
    + Cardinality({ f \in ZoneOf(e, entries, baseSockets) : SortsBefore(f, e) })

\* c.socketIndex = usedSockets[i] for the entry at position i of the sorted zone
CompactedSocket(e, entries, baseSockets) ==
    LET zone == ZoneOf(e, entries, baseSockets)
        i == Cardinality({ f \in zone : SortsBefore(f, e) })
        used == CHOOSE f \in zone : Cardinality({ g \in zone : SocketBefore(g, f) }) = i
    IN  used.socketIndex

optimizeWiring(devices, baseSockets) ==
    LET entries == WiringEntries(devices)
    IN  [i \in 1..Len(devices) |->
          IF NotPlaced(devices[i]) THEN devices[i]
          ELSE [devices[i] EXCEPT !.psuConnections =
                  [p \in DOMAIN devices[i].psuConnections |->
                     IF devices[i].psuConnections[p] = NullConn THEN NullConn
                     ELSE LET e == EntryOf(devices, i, p)
                          IN  [pduId |-> e.pduId,
                               socketIndex |-> CompactedSocket(e, entries, baseSockets)]]]]

-----------------------------------------------------------------------------
(* runAutoConnect: the socket auto-wiring engine.                          *)

PduIds(numPairs) == { PduId(side, k) : side \in {"A", "B"}, k \in 0..(numPairs - 1) }

\* the pduState built by the callers of runAutoConnect
NewPduState(numPairs) ==
    [pid \in PduIds(numPairs) |->
       [currentLoad |-> 0, usedSockets |-> {},
        circuitLoads |-> [c \in 0..(pduCircuitCount - 1) |-> 0]]]

\* Math.ceil(totalSocketsPerPDU / circuitCount)
socketsPerCircuit == CeilDiv(TotalSocketsPerPDU, pduCircuitCount)

\* circuitAmps * (safetyMargin / 100) >= (watts / powerFactor) / voltage, times 10000
WithinCircuitAmps(watts) ==
    watts * 10000 <= pduCircuitAmps * safetyMargin * powerFactor * pduVoltage

checkCircuit(pdu, socketIndex, loadWatts) ==
    LET cIdx == socketIndex \div socketsPerCircuit
    IN  IF cIdx >= pduCircuitCount THEN FALSE
        ELSE WithinCircuitAmps(pdu.circuitLoads[cIdx] + loadWatts)

addCircuitLoad(pdu, socketIndex, loadWatts) ==
    LET cIdx == socketIndex \div socketsPerCircuit
    IN  IF cIdx < pduCircuitCount
        THEN [pdu EXCEPT !.circuitLoads[cIdx] = @ + loadWatts]
        ELSE pdu

\* usedSockets.add(bestSocket); currentLoad += loadToAdd; addCircuitLoad(...)
Reserve(pdu, bestSocket, loadToAdd) ==
    addCircuitLoad([pdu EXCEPT !.usedSockets = @ \cup {bestSocket},
                               !.currentLoad = @ + loadToAdd],
                   bestSocket, loadToAdd)

\* the capacity test without the load to add
HasCapacityNow(pdu, loadToAdd) ==
    pdu.currentLoad * 10000 <= EffectiveCapacityScaled

\* pdu.currentLoad + loadToAdd <= effectiveCap
HasCapacity(pdu, loadToAdd) ==
    (pdu.currentLoad + loadToAdd) * 10000 <= EffectiveCapacityScaled

\* the zone type without the secondary group
ZoneTypePrimaryOnly(s) == socketType

\* isSecondary ? secondarySocketType : socketType
ZoneType(s) == IF s >= baseSocketsPerPDU THEN secondarySocketType ELSE socketType

\* every socket taken as matching
TypeMatchesAny(d, s) == TRUE

\* (isSecondary ? secondarySocketType : socketType) === d.connectionType
TypeMatches(d, s) == ZoneType(s) = d.connectionType

\* Math.abs(sY - deviceCenterY), doubled
SocketDist(d, pduIndex, s, numPairs) ==
    Abs(getPDUSocketY(pduIndex, s, numPairs, TotalSocketsPerPDU, rackSize) - DeviceCenterY(d))

\* the scan that keeps the first legal socket it meets
RECURSIVE ScanSocketsFirstLegal(_, _, _, _)
ScanSocketsFirstLegal(s, legal, dist, bestSocket) ==
    IF s >= TotalSocketsPerPDU THEN bestSocket
    ELSE IF legal[s] /\ bestSocket = -1
         THEN ScanSocketsFirstLegal(s + 1, legal, dist, s)
         ELSE ScanSocketsFirstLegal(s + 1, legal, dist, bestSocket)

\* the scan for (let s = 0; s < totalSocketsPerPDU; s++): bestSocket is replaced
\* only by a strictly nearer legal socket; -1 stands for "none yet" (Infinity)
RECURSIVE ScanSockets(_, _, _, _)
ScanSockets(s, legal, dist, bestSocket) ==
    IF s >= TotalSocketsPerPDU THEN bestSocket
    ELSE IF legal[s] /\ (bestSocket = -1 \/ dist[s] < dist[bestSocket])
         THEN ScanSockets(s + 1, legal, dist, s)
         ELSE ScanSockets(s + 1, legal, dist, bestSocket)

\* the best socket index free on both PDUs of pair k
BestSharedSocket(pduA, pduB, d, k, numPairs) ==
    ScanSockets(0,
                [s \in 0..(TotalSocketsPerPDU - 1) |->
                   /\ s \notin pduA.usedSockets
                   /\ s \notin pduB.usedSockets
                   /\ TypeMatches(d, s)
                   /\ checkCircuit(pduA, s, d.powerRatingPerDevice)
                   /\ checkCircuit(pduB, s, d.powerRatingPerDevice)],
                [s \in 0..(TotalSocketsPerPDU - 1) |-> SocketDist(d, k, s, numPairs)],
                -1)

\* the best free socket of one PDU
BestSocket(pdu, d, pduIndex, numPairs) ==
    ScanSockets(0,
                [s \in 0..(TotalSocketsPerPDU - 1) |->
                   /\ s \notin pdu.usedSockets
                   /\ TypeMatches(d, s)
                   /\ checkCircuit(pdu, s, d.powerRatingPerDevice)],
                [s \in 0..(TotalSocketsPerPDU - 1) |-> SocketDist(d, pduIndex, s, numPairs)],
                -1)

RECURSIVE MatchedPair(_, _, _, _)

\* one pair k of the matched-pair search, bestSocket being its best shared socket:
\* both PDUs need capacity and bestSocket !== -1, else the next pair is tried
TryPair(pduState, d, k, numPairs, bestSocket) ==
    IF /\ HasCapacity(pduState[PduId("A", k)], d.powerRatingPerDevice)
       /\ HasCapacity(pduState[PduId("B", k)], d.powerRatingPerDevice)
       /\ bestSocket # -1
    THEN [assigned |-> TRUE,
          pduState |-> [pduState EXCEPT
                          ![PduId("A", k)] = Reserve(pduState[PduId("A", k)], bestSocket,
                                                     d.powerRatingPerDevice),
                          ![PduId("B", k)] = Reserve(pduState[PduId("B", k)], bestSocket,
                                                     d.powerRatingPerDevice)],
          conns |-> [i \in 0..1 |-> [pduId |-> PduId(IF i = 0 THEN "A" ELSE "B", k),
                                     socketIndex |-> bestSocket]]]
    ELSE MatchedPair(pduState, d, k + 1, numPairs)

\* for (let k = 0; k < numPairs; k++): the first pair with capacity on both
\* sides and a shared legal socket
MatchedPair(pduState, d, k, numPairs) ==
    IF k >= numPairs THEN [assigned |-> FALSE, pduState |-> pduState, conns |-> <<>>]
    ELSE TryPair(pduState, d, k, numPairs,
                 BestSharedSocket(pduState[PduId("A", k)], pduState[PduId("B", k)],
                                  d, k, numPairs))

RECURSIVE AssignOnSide(_, _, _, _, _)

\* one candidate PDU of the side with the search ending at it
TryPduOnly(pduState, d, side, k, numPairs, bestSocket) ==
    IF HasCapacity(pduState[PduId(side, k)], d.powerRatingPerDevice) /\ bestSocket # -1
    THEN [pduState |-> [pduState EXCEPT
                          ![PduId(side, k)] = Reserve(pduState[PduId(side, k)], bestSocket,
                                                      d.powerRatingPerDevice)],
          conn |-> [pduId |-> PduId(side, k), socketIndex |-> bestSocket]]
    ELSE [pduState |-> pduState, conn |-> NullConn]

\* one candidate PDU of the side, bestSocket being its best free socket
TryPdu(pduState, d, side, k, numPairs, bestSocket) ==
    IF HasCapacity(pduState[PduId(side, k)], d.powerRatingPerDevice) /\ bestSocket # -1
    THEN [pduState |-> [pduState EXCEPT
                          ![PduId(side, k)] = Reserve(pduState[PduId(side, k)], bestSocket,
                                                      d.powerRatingPerDevice)],
          conn |-> [pduId |-> PduId(side, k), socketIndex |-> bestSocket]]
    ELSE AssignOnSide(pduState, d, side, k + 1, numPairs)

\* for (const pdu of candidates): the first PDU of the side, by pair index,
\* with capacity and a legal socket; null when there is none
AssignOnSide(pduState, d, side, k, numPairs) ==
    IF k >= numPairs THEN [pduState |-> pduState, conn |-> NullConn]
    ELSE TryPdu(pduState, d, side, k, numPairs,
                BestSocket(pduState[PduId(side, k)], d, k, numPairs))

RECURSIVE FallbackPsus(_, _, _, _, _)

\* newConns[i] = assigned connection or null, then the next PSU
FallbackNext(d, i, newConns, numPairs, r) ==
    FallbackPsus(r.pduState, d, i + 1, newConns @@ (i :> r.conn), numPairs)

\* the fallback of Phase 1: for (let i = 0; i < d.psuCount; i++), PSU 0 on side A,
\* every other PSU on side B
FallbackPsus(pduState, d, i, newConns, numPairs) ==
    IF i >= d.psuCount THEN [pduState |-> pduState, conns |-> newConns]
    ELSE FallbackNext(d, i, newConns, numPairs,
                      AssignOnSide(pduState, d, IF i = 0 THEN "A" ELSE "B", 0, numPairs))

\* a record, kept beside the wiring, of what a placed device met and got: the
\* pduState (as the set of its entries) and the round-robin counter before it,
\* and the updated device with its newConns
Decision(acc, d, matched, conns) ==
    [device |-> [d EXCEPT !.psuConnections = conns],
     pduState |-> { <<pid, acc.pduState[pid].currentLoad, acc.pduState[pid].usedSockets,
                      { <<c, acc.pduState[pid].circuitLoads[c]>> :
                          c \in DOMAIN acc.pduState[pid].circuitLoads }>> :
                    pid \in DOMAIN acc.pduState },
     singlePsuRoundRobin |-> acc.singlePsuRoundRobin, matched |-> matched]

\* processedDevices.push(updated) after the fallback f
PushFallback(acc, d, f) ==
    [acc EXCEPT !.pduState = f.pduState,
                !.processedDevices = Append(@, [d EXCEPT !.psuConnections = f.conns]),
                !.log = Append(@, Decision(acc, d, FALSE, f.conns))]

\* a placed dual-PSU device after the matched-pair search m: the matched pair,
\* else the fallback
PushDual(acc, d, m, numPairs) ==
    IF m.assigned
    THEN [acc EXCEPT !.pduState = m.pduState,
                     !.processedDevices = Append(@, [d EXCEPT !.psuConnections = m.conns]),
                     !.matchedIds = @ \cup {d.id},
                     !.log = Append(@, Decision(acc, d, TRUE, m.conns))]
    ELSE PushFallback(acc, d, FallbackPsus(acc.pduState, d, 0, <<>>, numPairs))

\* Phase 1, one device: an unplaced device loses its connections
ProcessDual(acc, d, numPairs) ==
    IF NotPlaced(d)
    THEN [acc EXCEPT !.processedDevices = Append(@, [d EXCEPT !.psuConnections = <<>>])]
    ELSE PushDual(acc, d, MatchedPair(acc.pduState, d, 0, numPairs), numPairs)

\* Phase 1: for (const d of dualPSUDevices). acc holds pduState, processedDevices,
\* singlePsuRoundRobin, the ids of the devices that got a matched pair and the
\* log of decisions.
RECURSIVE Phase1(_, _, _, _)
Phase1(acc, dualPSUDevices, n, numPairs) ==
    IF n > Len(dualPSUDevices) THEN acc
    ELSE Phase1(ProcessDual(acc, dualPSUDevices[n], numPairs), dualPSUDevices, n + 1, numPairs)

RECURSIVE Phase2Psus(_, _, _, _, _, _)

\* the next PSU with the round-robin counter left as it was
Phase2NextNoCount(singlePsuRoundRobin, d, i, newConns, numPairs, r) ==
    Phase2Psus(r.pduState, singlePsuRoundRobin, d, i + 1, newConns @@ (i :> r.conn), numPairs)

\* newConns[i] = assigned connection or null; singlePsuRoundRobin++ for a
\* single-PSU device
Phase2Next(singlePsuRoundRobin, d, i, newConns, numPairs, r) ==
    Phase2Psus(r.pduState,
               IF d.psuCount = 1 THEN singlePsuRoundRobin + 1 ELSE singlePsuRoundRobin,
               d, i + 1, newConns @@ (i :> r.conn), numPairs)

\* Phase 2, the PSUs of one placed device: for (let i = 0; i < d.psuCount; i++)
Phase2Psus(pduState, singlePsuRoundRobin, d, i, newConns, numPairs) ==
    IF i >= d.psuCount
    THEN [pduState |-> pduState, singlePsuRoundRobin |-> singlePsuRoundRobin,
          conns |-> newConns]
    ELSE Phase2Next(singlePsuRoundRobin, d, i, newConns, numPairs,
                    AssignOnSide(pduState, d,
                                 IF d.psuCount = 1
                                 THEN (IF singlePsuRoundRobin % 2 = 0 THEN "A" ELSE "B")
                                 ELSE (IF i % 2 = 0 THEN "A" ELSE "B"),
                                 0, numPairs))

\* processedDevices.push(updated) after the PSU loop r of Phase 2
PushOther(acc, d, r) ==
    [acc EXCEPT !.pduState = r.pduState,
                !.singlePsuRoundRobin = r.singlePsuRoundRobin,
                !.processedDevices = Append(@, [d EXCEPT !.psuConnections = r.conns]),
                !.log = Append(@, Decision(acc, d, FALSE, r.conns))]

\* Phase 2, one device, an unplaced device being left out of processedDevices
ProcessOtherSkipUnplaced(acc, d, numPairs) ==
    IF NotPlaced(d)
    THEN acc
    ELSE PushOther(acc, d,
                   Phase2Psus(acc.pduState, acc.singlePsuRoundRobin, d, 0, <<>>, numPairs))

\* Phase 2, one device: an unplaced device loses its connections
ProcessOther(acc, d, numPairs) ==
    IF NotPlaced(d)
    THEN [acc EXCEPT !.processedDevices = Append(@, [d EXCEPT !.psuConnections = <<>>])]
    ELSE PushOther(acc, d,
                   Phase2Psus(acc.pduState, acc.singlePsuRoundRobin, d, 0, <<>>, numPairs))

\* Phase 2: for (const d of otherDevices)
RECURSIVE Phase2(_, _, _, _)
Phase2(acc, otherDevices, n, numPairs) ==
    IF n > Len(otherDevices) THEN acc
    ELSE Phase2(ProcessOther(acc, otherDevices[n], numPairs), otherDevices, n + 1, numPairs)

\* [...devicesToProcess].sort(...): U position descending, unplaced devices last;
\* the sort is stable
DeviceSortsBefore(devices, i, j) ==
    LET a == devices[i]
        b == devices[j]
    IN  \/ ~NotPlaced(a) /\ NotPlaced(b)
        \/ ~NotPlaced(a) /\ ~NotPlaced(b) /\ a.uPosition > b.uPosition
        \/ ~NotPlaced(a) /\ ~NotPlaced(b) /\ a.uPosition = b.uPosition /\ i < j
        \/ NotPlaced(a) /\ NotPlaced(b) /\ i < j

sortedDevices(devices) ==
    [r \in 1..Len(devices) |->
       devices[CHOOSE i \in 1..Len(devices) :
                 Cardinality({ j \in 1..Len(devices) : DeviceSortsBefore(devices, j, i) }) = r - 1]]

IsDual(d) == d.psuCount = 2
IsOther(d) == d.psuCount # 2

\* Phase 1 over the dual-PSU devices, then Phase 2 over the others
PhasesOf(sorted, pduState, numPairs) ==
    Phase2(Phase1([pduState |-> pduState, processedDevices |-> <<>>,
                   singlePsuRoundRobin |-> 0, matchedIds |-> {}, log |-> <<>>],
                  SelectSeq(sorted, IsDual), 1, numPairs),
           SelectSeq(sorted, IsOther), 1, numPairs)

\* Phase 1 then Phase 2, before the post-processing
AutoConnectPhases(devicesToProcess, pduState, numPairs) ==
    PhasesOf(sortedDevices(devicesToProcess), pduState, numPairs)

\* return optimizeWiring(processedDevices, baseSocketsPerPDU), with the list
\* before the post-processing, the matched ids and the log kept beside it
PostProcessed(phases) ==
    [devices |-> optimizeWiring(phases.processedDevices, baseSocketsPerPDU),
     processedDevices |-> phases.processedDevices,
     matchedIds |-> phases.matchedIds,
     log |-> phases.log]

\* The effective capacity, the socket total and the circuit parameters that the
\* source passes as arguments are the Dashboard's current values at both call
\* sites; they are read from the state here.
runAutoConnect(devicesToProcess, pduState, numPairs) ==
    PostProcessed(AutoConnectPhases(devicesToProcess, pduState, numPairs))

-----------------------------------------------------------------------------
(* The handlers of the Dashboard.                                          *)

Op(op, outcome, matched) == [op |-> op, outcome |-> outcome, matched |-> matched]

\* the (device, psuIndex) -> (pduId, socketIndex) mapping of a list, null
\* connections left out
WiringOf(devices) ==
    UNION { { <<devices[i].id, p, devices[i].psuConnections[p]>> :
                p \in { q \in DOMAIN devices[i].psuConnections :
                          devices[i].psuConnections[q] # NullConn } } :
            i \in 1..Len(devices) }

\* what a run of runAutoConnect leaves in lastOp; replaced tells whether the
\* list it was given held another wiring than the one it returned
WiredOp(op, run, replaced) ==
    [op |-> op,
     outcome |-> IF run.devices # run.processedDevices THEN "reordered" ELSE "wired",
     matched |-> run.matchedIds,
     log |-> run.log,
     replaced |-> replaced]

\* prev.find(d => d.id === id): the index of the first such device, 0 for undefined
FindDevice(devices, id) ==
    IF \E i \in 1..Len(devices) : devices[i].id = id
    THEN CHOOSE i \in 1..Len(devices) :
           /\ devices[i].id = id
           /\ \A j \in 1..(i - 1) : devices[j].id # id
    ELSE 0

\* setActiveDevices(updated)
SetWired(op, run) ==
    /\ activeDevices' = run.devices
    /\ lastOp' = WiredOp(op, run, WiringOf(activeDevices) \notin {{}, WiringOf(run.devices)})
    /\ UNCHANGED <<config, csvInput, effectPending, optimization>>

\* the pduState with the sockets of the present connections taken as used
PduStateInUse(numPairs) ==
    [pid \in PduIds(numPairs) |->
       [currentLoad |-> 0,
        usedSockets |-> { w[3].socketIndex : w \in { v \in WiringOf(activeDevices) : v[3].pduId = pid } },
        circuitLoads |-> [c \in 0..(pduCircuitCount - 1) |-> 0]]]

\* handleAutoConnect on a pduState that keeps the sockets in use
AutoConnectAroundWiring(numPairs) ==
    SetWired("handleAutoConnect",
             runAutoConnect(activeDevices, PduStateInUse(numPairs), numPairs))

AutoConnectWith(numPairs) ==
    SetWired("handleAutoConnect", runAutoConnect(activeDevices, NewPduState(numPairs), numPairs))

handleAutoConnect == AutoConnectWith(activePduPairs)

\* the device the target slot belongs to: the first placed device, other than the
\* moved one, whose U range holds targetU; 0 for undefined
FindTargetDevice(devices, id, targetU) ==
    LET hit(i) == /\ devices[i].id # id
                  /\ devices[i].uPosition # NullU
                  /\ targetU <= devices[i].uPosition
                  /\ targetU >= devices[i].uPosition - devices[i].uHeight + 1
    IN  IF \E i \in 1..Len(devices) : hit(i)
        THEN CHOOSE i \in 1..Len(devices) : hit(i) /\ \A j \in 1..(i - 1) : ~hit(j)
        ELSE 0

\* newDevices with the moved device put at targetU, the target device left in place
MovedDevicesOntoTarget(devices, id, targetU) ==
    [i \in 1..Len(devices) |->
       IF devices[i].id = devices[FindDevice(devices, id)].id
       THEN [devices[i] EXCEPT !.uPosition = targetU]
       ELSE devices[i]]

\* newDevices of handleMoveDevice: a swap with the target device, else a direct move
MovedDevices(devices, id, targetU) ==
    LET src == FindDevice(devices, id)
        tgt == FindTargetDevice(devices, id, targetU)
        sourcePos == devices[tgt].uPosition
        targetPos == devices[src].uPosition
    IN  IF tgt # 0
        THEN [i \in 1..Len(devices) |->
                IF devices[i].id = devices[src].id
                THEN [devices[i] EXCEPT !.uPosition = sourcePos]
                ELSE IF devices[i].id = devices[tgt].id
                     THEN [devices[i] EXCEPT !.uPosition = targetPos]
                     ELSE devices[i]]
        ELSE [i \in 1..Len(devices) |->
                IF devices[i].id = devices[src].id
                THEN [devices[i] EXCEPT !.uPosition = targetU]
                ELSE devices[i]]

\* the conflict test without the test of the bottom of the rack
hasConflictNoBottom(newDevices) ==
    \E i \in 1..Len(newDevices) :
       LET d1 == newDevices[i]
       IN  /\ d1.uPosition # NullU
           /\ \/ d1.uPosition > rackSize
              \/ \E j \in 1..Len(newDevices) :
                    LET d2 == newDevices[j]
                    IN  /\ i # j
                        /\ d2.uPosition # NullU
                        /\ Max2(d1.uPosition - d1.uHeight + 1, d2.uPosition - d2.uHeight + 1)
                             <= Min2(d1.uPosition, d2.uPosition)

hasConflict(newDevices) ==
    \E i \in 1..Len(newDevices) :
       LET d1 == newDevices[i]
       IN  /\ d1.uPosition # NullU
           /\ \/ d1.uPosition > rackSize
              \/ d1.uPosition - d1.uHeight + 1 < 1
              \/ \E j \in 1..Len(newDevices) :
                    LET d2 == newDevices[j]
                    IN  /\ i # j
                        /\ d2.uPosition # NullU
                        /\ Max2(d1.uPosition - d1.uHeight + 1, d2.uPosition - d2.uHeight + 1)
                             <= Min2(d1.uPosition, d2.uPosition)

handleMoveDevice(id, targetU) ==
    LET src == FindDevice(activeDevices, id)
        tgt == FindTargetDevice(activeDevices, id, targetU)
        newDevices == MovedDevices(activeDevices, id, targetU)
    IN  /\ IF src = 0
           THEN /\ activeDevices' = activeDevices
                /\ lastOp' = Op("handleMoveDevice", "noSource", {})
           ELSE IF hasConflict(newDevices)
                THEN /\ activeDevices' = activeDevices
                     /\ lastOp' = Op("handleMoveDevice",
                                     IF tgt # 0 THEN "swapRejected" ELSE "moveRejected", {})
                ELSE /\ activeDevices' = newDevices
                     /\ lastOp' = Op("handleMoveDevice",
                                     IF tgt # 0 THEN "swapped" ELSE "moved", {})
        /\ UNCHANGED <<config, csvInput, effectPending, optimization>>

\* the connections that hold (pduId, socketIndex), as <<device index, psuIndex>>
HoldersOf(devices, pduId, socketIndex) ==
    { <<i, p>> \in UNION { {i} \X DOMAIN devices[i].psuConnections : i \in 1..Len(devices) } :
        /\ devices[i].psuConnections[p] # NullConn
        /\ devices[i].psuConnections[p].pduId = pduId
        /\ devices[i].psuConnections[p].socketIndex = socketIndex }

\* the first holder met by for (const d of prev) for (... of Object.entries(...))
FirstHolder(devices, pduId, socketIndex) ==
    LET holders == HoldersOf(devices, pduId, socketIndex)
    IN  CHOOSE h \in holders :
          \A g \in holders : h[1] < g[1] \/ (h[1] = g[1] /\ h[2] <= g[2])

\* the patch of the source PSU alone, the occupant of the socket left as it is
PatchedSourceOnly(devices, deviceId, psuIndex, pduId, socketIndex, occupant) ==
    [i \in 1..Len(devices) |->
       IF devices[i].id = deviceId
       THEN [devices[i] EXCEPT !.psuConnections =
               (psuIndex :> (IF pduId = NullConn.pduId THEN NullConn
                             ELSE [pduId |-> pduId, socketIndex |-> socketIndex]))
               @@ @]
       ELSE devices[i]]

\* the patch with the occupant of the socket disconnected instead of moved to the
\* source PSU's previous connection
PatchedOccupantCleared(devices, deviceId, psuIndex, pduId, socketIndex, occupant) ==
    [i \in 1..Len(devices) |->
       [devices[i] EXCEPT !.psuConnections =
          (IF occupant # <<>> /\ devices[i].id = devices[occupant[1]].id
           THEN (occupant[2] :> NullConn) ELSE <<>>)
          @@ (IF devices[i].id = deviceId
              THEN (psuIndex :> (IF pduId = NullConn.pduId THEN NullConn
                                 ELSE [pduId |-> pduId, socketIndex |-> socketIndex]))
              ELSE <<>>)
          @@ @]]

\* the list handleConnectionUpdate returns once it has not returned prev
PatchedDevices(devices, deviceId, psuIndex, pduId, socketIndex, occupant) ==
    LET src == FindDevice(devices, deviceId)
        sourcePrevConn == ConnOf(devices[src], psuIndex)
        own(d) == IF d.id = deviceId
                  THEN (psuIndex :> (IF pduId = NullConn.pduId THEN NullConn
                                     ELSE [pduId |-> pduId, socketIndex |-> socketIndex]))
                       @@ d.psuConnections
                  ELSE d.psuConnections
        displaced(d, conns) ==
                  IF occupant # <<>> /\ d.id = devices[occupant[1]].id
                  THEN (occupant[2] :> sourcePrevConn) @@ conns
                  ELSE conns
    IN  [i \in 1..Len(devices) |->
           [devices[i] EXCEPT !.psuConnections = displaced(devices[i], own(devices[i]))]]

handleConnectionUpdate(deviceId, psuIndex, pduId, socketIndex) ==
    LET src == FindDevice(activeDevices, deviceId)
        targeted == pduId # NullConn.pduId /\ socketIndex # NullConn.socketIndex
        holders == IF targeted THEN HoldersOf(activeDevices, pduId, socketIndex) ELSE {}
        first == FirstHolder(activeDevices, pduId, socketIndex)
        ownSocket == holders # {} /\ activeDevices[first[1]].id = deviceId /\ first[2] = psuIndex
        occupant == IF holders # {} THEN first ELSE <<>>
    IN  /\ IF src = 0
           THEN /\ activeDevices' = activeDevices
                /\ lastOp' = Op("handleConnectionUpdate", "noSource", {})
           ELSE IF ownSocket
                THEN /\ activeDevices' = activeDevices
                     /\ lastOp' = Op("handleConnectionUpdate", "ownSocket", {})
                ELSE /\ activeDevices' = PatchedDevices(activeDevices, deviceId, psuIndex,
                                                        pduId, socketIndex, occupant)
                     /\ lastOp' = Op("handleConnectionUpdate",
                                     IF pduId = NullConn.pduId THEN "cleared"
                                     ELSE IF occupant # <<>> THEN "displaced" ELSE "set", {})
        /\ UNCHANGED <<config, csvInput, effectPending, optimization>>

-----------------------------------------------------------------------------
(* Device lists and configurations the model draws from.                   *)

Kind(name, psuCount, typicalPower, maxPower, connectionType, uHeight) ==
    [name |-> name, psuCount |-> psuCount, typicalPower |-> typicalPower,
     powerRatingPerDevice |-> maxPower, connectionType |-> connectionType,
     uHeight |-> uHeight]

\* a Device of parseCSV: one row of the CSV with quantity 1
Device(kind, id, uPosition, psuConnections) ==
    [id |-> id, name |-> kind.name, psuCount |-> kind.psuCount,
     typicalPower |-> kind.typicalPower,
     powerRatingPerDevice |-> kind.powerRatingPerDevice,
     connectionType |-> kind.connectionType, uHeight |-> kind.uHeight,
     uPosition |-> uPosition, psuConnections |-> psuConnections]

NoConnections(kind) == [p \in 0..(kind.psuCount - 1) |-> NullConn]

WireKinds ==
    { Kind("server", 2, 1800, 3000, "C13", 1),
      Kind("storage", 2, 1200, 2000, "C13", 1),
      Kind("console", 1, 600, 1000, "C13", 1),
      Kind("chassis", 3, 600, 1000, "C19", 2) }

Config(rack, base, secondary, manual, cols, capacity, circuits, amps) ==
    [rackSize |-> rack, baseSocketsPerPDU |-> base, secondarySocketsPerPDU |-> secondary,
     manualPduPairs |-> manual, pduCols |-> cols, basePduCapacity |-> capacity,
     pduCircuitCount |-> circuits, pduCircuitAmps |-> amps]

\* safetyMargin, powerFactor, pduVoltage and the socket types keep the values
\* of useState
SetConfig(c) ==
    /\ rackSize = c.rackSize
    /\ baseSocketsPerPDU = c.baseSocketsPerPDU
    /\ secondarySocketsPerPDU = c.secondarySocketsPerPDU
    /\ manualPduPairs = c.manualPduPairs
    /\ pduCols = c.pduCols
    /\ basePduCapacity = c.basePduCapacity
    /\ pduCircuitCount = c.pduCircuitCount
    /\ pduCircuitAmps = c.pduCircuitAmps
    /\ safetyMargin = 80
    /\ powerFactor = 95
    /\ pduVoltage = 230
    /\ socketType = "C13"
    /\ secondarySocketType = "C19"

WireConfigs ==
    { Config(4, 4, 0, NoManual, 1, 14400, 2, 32),
      Config(4, 2, 1, NoManual, 1, 3680, 1, 32),
      Config(5, 2, 2, 2, 2, 7360, 2, 32) }

\* the device lists of kinds ks with every placement that is inside the rack and
\* free of overlaps, unplaced devices included, and no PSU connected
PlacedLists(kinds, n) ==
    { devs \in [1..n -> UNION { { Device(k, 0, u, IF u = NullU THEN <<>> ELSE NoConnections(k)) :
                                    u \in {NullU} \cup (1..rackSize) } : k \in kinds }] :
        ~hasConflict(devs) }

WithIds(devs) == [i \in 1..Len(devs) |-> [devs[i] EXCEPT !.id = i]]

InitWire ==
    /\ \E c \in WireConfigs : SetConfig(c)
    /\ \E n \in 1..MaxDevices : \E devs \in PlacedLists(WireKinds, n) :
          activeDevices = WithIds(devs)
    /\ lastOp = Op("init", "unwired", {})
    /\ csvInput = <<>>
    /\ effectPending = FALSE
    /\ optimization = NoOptimization

NextWire == handleAutoConnect

SpecWire == InitWire /\ [][NextWire]_vars

-----------------------------------------------------------------------------
(* The CSV load effect and the Dashboard with its manual edits.            *)

\* positionedDevices: stack the devices from the top of the rack downwards
RECURSIVE PositionDevices(_, _, _, _)
PositionDevices(devices, n, currentU, positioned) ==
    IF n > Len(devices) THEN positioned
    ELSE LET d == devices[n]
         IN  IF currentU - d.uHeight + 1 >= 1
             THEN PositionDevices(devices, n + 1, currentU - d.uHeight,
                                  Append(positioned, [d EXCEPT !.uPosition = currentU]))
             ELSE PositionDevices(devices, n + 1, currentU,
                                  Append(positioned, [d EXCEPT !.uPosition = NullU]))

\* the sizing of the effect with the socket requirement left out
EffectPairsByPower(devices) ==
    Max2(1, CeilDiv(TotalMaxPower(devices) * 10000,
                    basePduCapacity * powerFactor * safetyMargin))

\* calculatedPairs of the effect: Math.max(1, pairsByPower, pairsBySockets)
EffectCalculatedPairs(devices) ==
    Max2(1, Max2(CeilDiv(TotalMaxPower(devices) * 10000,
                         basePduCapacity * powerFactor * safetyMargin),
                 CeilDiv(TotalPSUs(devices),
                         2 * (baseSocketsPerPDU + secondarySocketsPerPDU))))

\* numPairs of the effect: the manual override, else its own sizing
EffectNumPairs(devices) ==
    IF manualPduPairs # NoManual THEN manualPduPairs ELSE EffectCalculatedPairs(devices)

\* setActiveDevices(initialDevices)
Loaded(run) ==
    /\ activeDevices = run.devices
    /\ lastOp = WiredOp("loadCsv", run, FALSE)

LoadWith(devices, numPairs) ==
    Loaded(runAutoConnect(PositionDevices(devices, 1, rackSize, <<>>),
                          NewPduState(numPairs), numPairs))

\* the effect on csvInput: position the parsed devices, then auto-wire them
LoadCsv(devices) == LoadWith(devices, EffectNumPairs(devices))

\* groups[0].devices of parseCSV for n rows of quantity 1, as far as the effect
\* reads them: it replaces every uPosition, and runAutoConnect every psuConnections
CsvDevices(kinds, n) ==
    { [i \in 1..n |-> Device(ks[i], i, NullU, <<>>)] : ks \in [1..n -> kinds] }

EditKinds ==
    { Kind("storage", 2, 1200, 2000, "C13", 1),
      Kind("blade", 1, 600, 1000, "C19", 2) }

EditConfigs == { Config(4, 1, 1, NoManual, 1, 7360, 1, 32) }

Init ==
    /\ \E c \in EditConfigs : SetConfig(c)
    /\ \E n \in 1..MaxEditDevices : \E devices \in CsvDevices(EditKinds, n) :
          /\ csvInput = devices
          /\ LoadCsv(devices)
    /\ effectPending = FALSE
    /\ optimization = NoOptimization

DeviceIds == { activeDevices[i].id : i \in 1..Len(activeDevices) }

PsuIndices(id) == 0..(activeDevices[FindDevice(activeDevices, id)].psuCount - 1)

\* a drop on a rack slot, a cable dropped on a socket, a click on a cable
Next ==
    \/ handleAutoConnect
    \/ \E id \in DeviceIds : \E targetU \in 0..(rackSize + 1) : handleMoveDevice(id, targetU)
    \/ \E id \in DeviceIds : \E psuIndex \in PsuIndices(id) :
         \/ \E pduId \in PduIds(activePduPairs) : \E socketIndex \in 0..(TotalSocketsPerPDU - 1) :
               handleConnectionUpdate(id, psuIndex, pduId, socketIndex)
         \/ handleConnectionUpdate(id, psuIndex, NullConn.pduId, NullConn.socketIndex)

Spec == Init /\ [][Next]_vars

-----------------------------------------------------------------------------
(* The compaction pass on its own, over device lists with connections.     *)

CompactKinds ==
    { Kind("storage", 2, 1200, 2000, "C13", 1),
      Kind("console", 1, 600, 1000, "C13", 1) }

CompactConfigs == { Config(4, 2, 1, NoManual, 1, 7360, 1, 32) }

\* null, or a socket of the PDUs of one pair
SocketChoices ==
    {NullConn} \cup { [pduId |-> pid, socketIndex |-> s] :
                        pid \in PduIds(1), s \in 0..(TotalSocketsPerPDU - 1) }

\* a device of one of the kinds, placed or not, each PSU on a socket or null
ConnectedDevices(kinds) ==
    UNION { { Device(k, 0, u, c) : u \in {NullU} \cup (1..rackSize),
                                   c \in [0..(k.psuCount - 1) -> SocketChoices] } :
            k \in kinds }

\* no two (device, psuIndex) hold the same (pduId, socketIndex)
SocketsUnique(devices) ==
    \A i, j \in 1..Len(devices) :
       \A p \in DOMAIN devices[i].psuConnections : \A q \in DOMAIN devices[j].psuConnections :
          (/\ devices[i].psuConnections[p] # NullConn
           /\ devices[i].psuConnections[p] = devices[j].psuConnections[q]) =>
             (i = j /\ p = q)

\* the lists of n such devices with a valid layout and every socket held once
ConnectedLists(kinds, n) ==
    { devs \in [1..n -> ConnectedDevices(kinds)] : ~hasConflict(devs) /\ SocketsUnique(devs) }

InitCompact ==
    /\ \E c \in CompactConfigs : SetConfig(c)
    /\ \E n \in 1..MaxCompactDevices : \E devs \in ConnectedLists(CompactKinds, n) :
          activeDevices = WithIds(devs)
    /\ lastOp = Op("init", "unwired", {})
    /\ csvInput = <<>>
    /\ effectPending = FALSE
    /\ optimization = NoOptimization

\* updated = optimizeWiring(devices, baseSocketsPerPDU)
SetCompacted(updated) ==
    /\ activeDevices' = updated
    /\ lastOp' = Op("optimizeWiring",
                    IF updated # activeDevices THEN "reassigned" ELSE "kept", {})
    /\ UNCHANGED <<config, csvInput, effectPending, optimization>>

Compact == SetCompacted(optimizeWiring(activeDevices, baseSocketsPerPDU))

NextCompact == Compact

SpecCompact == InitCompact /\ [][NextCompact]_vars

-----------------------------------------------------------------------------
(* The configuration panel: the apply handlers, Reset, the pair buttons,   *)
(* the selects, the group editor and a CSV upload.                         *)

\* Number(temp...) of a text field: NaN, or a number held in tenths
Entry(tenths) == [isNaN |-> FALSE, tenths |-> tenths]

NaNEntry == [isNaN |-> TRUE, tenths |-> 0]

\* Math.floor(val)
Floor(val) == val.tenths \div 10

\* the test with the upper bound left out
ValidEntryNoUpper(val, lo, hi) == ~val.isNaN /\ val.tenths >= lo * 10

\* !isNaN(val) && val >= lo && val <= hi
ValidEntry(val, lo, hi) == ~val.isNaN /\ val.tenths >= lo * 10 /\ val.tenths <= hi * 10

handleApplyRackSize(val) ==
    /\ IF ValidEntry(val, 4, 52)
       THEN /\ rackSize' = Floor(val)
            /\ lastOp' = Op("handleApplyRackSize", "applied", {})
       ELSE /\ rackSize' = rackSize
            /\ lastOp' = Op("handleApplyRackSize", "rejected", {})
    /\ UNCHANGED <<csvInput, effectPending, optimization, activeDevices,
                   baseSocketsPerPDU, secondarySocketsPerPDU,
                   manualPduPairs, pduCols, basePduCapacity, safetyMargin, powerFactor,
                   pduVoltage, pduCircuitCount, pduCircuitAmps, socketType,
                   secondarySocketType>>

handleApplySockets(val) ==
    /\ IF ValidEntry(val, 1, 100)
       THEN /\ baseSocketsPerPDU' = Floor(val)
            /\ lastOp' = Op("handleApplySockets", "applied", {})
       ELSE /\ baseSocketsPerPDU' = baseSocketsPerPDU
            /\ lastOp' = Op("handleApplySockets", "rejected", {})
    /\ UNCHANGED <<csvInput, effectPending, optimization, activeDevices,
                   rackSize, secondarySocketsPerPDU,
                   manualPduPairs, pduCols, basePduCapacity, safetyMargin, powerFactor,
                   pduVoltage, pduCircuitCount, pduCircuitAmps, socketType,
                   secondarySocketType>>

handleApplySecondarySockets(val) ==
    /\ IF ValidEntry(val, 0, 16)
       THEN /\ secondarySocketsPerPDU' = Floor(val)
            /\ lastOp' = Op("handleApplySecondarySockets", "applied", {})
       ELSE /\ secondarySocketsPerPDU' = secondarySocketsPerPDU
            /\ lastOp' = Op("handleApplySecondarySockets", "rejected", {})
    /\ UNCHANGED <<csvInput, effectPending, optimization, activeDevices,
                   rackSize, baseSocketsPerPDU,
                   manualPduPairs, pduCols, basePduCapacity, safetyMargin, powerFactor,
                   pduVoltage, pduCircuitCount, pduCircuitAmps, socketType,
                   secondarySocketType>>

\* the three early returns, then the three setters; v, c and a are committed as
\* entered, so the entries drawn for them are whole numbers of tenths
handleApplyCircuitConfig(v, c, a) ==
    /\ IF ~ValidEntry(v, 100, 480)
       THEN /\ lastOp' = Op("handleApplyCircuitConfig", "Invalid Voltage", {})
            /\ UNCHANGED <<pduVoltage, pduCircuitCount, pduCircuitAmps>>
       ELSE IF ~ValidEntry(c, 1, 6)
       THEN /\ lastOp' = Op("handleApplyCircuitConfig", "Invalid Circuit Count", {})
            /\ UNCHANGED <<pduVoltage, pduCircuitCount, pduCircuitAmps>>
       ELSE IF ~ValidEntry(a, 1, 63)
       THEN /\ lastOp' = Op("handleApplyCircuitConfig", "Invalid Amperage", {})
            /\ UNCHANGED <<pduVoltage, pduCircuitCount, pduCircuitAmps>>
       ELSE /\ pduVoltage' = v.tenths \div 10
            /\ pduCircuitCount' = c.tenths \div 10
            /\ pduCircuitAmps' = a.tenths \div 10
            /\ lastOp' = Op("handleApplyCircuitConfig", "applied", {})
    /\ UNCHANGED <<csvInput, effectPending, optimization, activeDevices,
                   rackSize, baseSocketsPerPDU,
                   secondarySocketsPerPDU, manualPduPairs, pduCols, basePduCapacity,
                   safetyMargin, powerFactor, socketType, secondarySocketType>>

\* finalDevices of the effect on csvInput, under the configuration it runs with
EffectDevices(devices) ==
    runAutoConnect(PositionDevices(devices, 1, rackSize, <<>>),
                   NewPduState(EffectNumPairs(devices)), EffectNumPairs(devices)).devices

\* the first rows of DEFAULT_CSV as parseCSV reads them
DefaultKind == Kind("Cisco Nexus C93180YC-FX3", 2, 360, 600, "C13", 1)

DefaultCsv == [i \in 1..MaxDefaultDevices |-> Device(DefaultKind, i, NullU, <<>>)]

\* the state setters of Reset; the effect is due when csvInput has changed
handleReset ==
    /\ csvInput' = DefaultCsv
    /\ effectPending' = (csvInput # DefaultCsv)
    /\ baseSocketsPerPDU' = 20
    /\ secondarySocketsPerPDU' = 4
    /\ rackSize' = 48
    /\ manualPduPairs' = NoManual
    /\ pduCols' = 1
    /\ pduVoltage' = 230
    /\ pduCircuitCount' = 1
    /\ pduCircuitAmps' = 32
    /\ lastOp' = Op("handleReset", "reset", {})
    /\ UNCHANGED <<optimization, activeDevices, basePduCapacity, safetyMargin, powerFactor,
                   socketType, secondarySocketType>>

\* a CSV file read by handleFileUpload: setCsvInput(content)
handleFileUpload(content) ==
    /\ csvInput' = content
    /\ effectPending' = (csvInput # content)
    /\ lastOp' = Op("handleFileUpload", "read", {})
    /\ UNCHANGED <<optimization, activeDevices, config>>

\* the effect on csvInput, run after the render that changed csvInput:
\* nothing without a group, else position and auto-wire the parsed devices
csvEffect ==
    /\ effectPending
    /\ effectPending' = FALSE
    /\ IF csvInput # <<>>
       THEN /\ activeDevices' = EffectDevices(csvInput)
            /\ lastOp' = Op("csvEffect", "loaded", {})
       ELSE /\ activeDevices' = activeDevices
            /\ lastOp' = Op("csvEffect", "no group", {})
    /\ UNCHANGED <<config, csvInput, optimization>>

\* the minus button without its test
MinusPairsAlways(active, calculated) ==
    IF active - 1 = calculated THEN NoManual ELSE active - 1

\* the minus button: what it leaves in manualPduPairs
MinusPairs(active, calculated) ==
    IF active > calculated
    THEN IF active - 1 = calculated THEN NoManual ELSE active - 1
    ELSE manualPduPairs

\* the pair buttons, were they to clear the connections to PDUs beyond the
\* new pair count
SetManualPduPairsPruning(op, value) ==
    /\ manualPduPairs' = value
    /\ lastOp' = Op(op, IF value = manualPduPairs THEN "kept" ELSE "set", {})
    /\ activeDevices' =
         [i \in 1..Len(activeDevices) |->
            [activeDevices[i] EXCEPT !.psuConnections =
               [p \in DOMAIN @ |->
                  IF @[p] # NullConn /\ @[p].pduId[2] > Max2(1, value)
                  THEN NullConn ELSE @[p]]]]
    /\ UNCHANGED <<csvInput, effectPending, optimization, rackSize, baseSocketsPerPDU,
                   secondarySocketsPerPDU, pduCols, basePduCapacity, safetyMargin,
                   powerFactor, pduVoltage, pduCircuitCount, pduCircuitAmps, socketType,
                   secondarySocketType>>

\* setManualPduPairs(value): nothing else is written
SetManualPduPairs(op, value) ==
    /\ manualPduPairs' = value
    /\ lastOp' = Op(op, IF value = manualPduPairs THEN "kept" ELSE "set", {})
    /\ UNCHANGED <<csvInput, effectPending, optimization, activeDevices,
                   rackSize, baseSocketsPerPDU,
                   secondarySocketsPerPDU, pduCols, basePduCapacity, safetyMargin,
                   powerFactor, pduVoltage, pduCircuitCount, pduCircuitAmps, socketType,
                   secondarySocketType>>

pairMinus == SetManualPduPairs("pairMinus", MinusPairs(activePduPairs, calculatedPduPairs))

\* the plus button, as long as the pair count stays within MaxPairs
pairPlus ==
    /\ activePduPairs < MaxPairs
    /\ SetManualPduPairs("pairPlus", activePduPairs + 1)

\* the capacity select over PDU_VARIANTS
setBasePduCapacity(power) ==
    /\ basePduCapacity' = power
    /\ lastOp' = Op("setBasePduCapacity", "set", {})
    /\ UNCHANGED <<csvInput, effectPending, optimization, activeDevices,
                   rackSize, baseSocketsPerPDU,
                   secondarySocketsPerPDU, manualPduPairs, pduCols, safetyMargin,
                   powerFactor, pduVoltage, pduCircuitCount, pduCircuitAmps, socketType,
                   secondarySocketType>>

\* the two connector selects
setSocketType(type) ==
    /\ socketType' = type
    /\ lastOp' = Op("setSocketType", "set", {})
    /\ UNCHANGED <<csvInput, effectPending, optimization, activeDevices,
                   rackSize, baseSocketsPerPDU,
                   secondarySocketsPerPDU, manualPduPairs, pduCols, basePduCapacity,
                   safetyMargin, powerFactor, pduVoltage, pduCircuitCount,
                   pduCircuitAmps, secondarySocketType>>

setSecondarySocketType(type) ==
    /\ secondarySocketType' = type
    /\ lastOp' = Op("setSecondarySocketType", "set", {})
    /\ UNCHANGED <<csvInput, effectPending, optimization, activeDevices,
                   rackSize, baseSocketsPerPDU,
                   secondarySocketsPerPDU, manualPduPairs, pduCols, basePduCapacity,
                   safetyMargin, powerFactor, pduVoltage, pduCircuitCount,
                   pduCircuitAmps, socketType>>

\* prev.map(d => d.name === editingType ? {...d, uHeight, typicalPower,
\* powerRatingPerDevice} : d)
GroupEdited(devices, editingType, editValues) ==
    [i \in 1..Len(devices) |->
        IF devices[i].name = editingType
        THEN [devices[i] EXCEPT !.uHeight = editValues.uHeight,
                                !.typicalPower = editValues.typical,
                                !.powerRatingPerDevice = editValues.max]
        ELSE devices[i]]

saveGroupEdit(editingType, editValues) ==
    /\ activeDevices' = GroupEdited(activeDevices, editingType, editValues)
    /\ lastOp' = Op("saveGroupEdit", "saved", {})
    /\ UNCHANGED <<config, csvInput, effectPending, optimization>>

\* what the text fields hold: not a number, values below the range, its ends,
\* a fraction inside it, values above it
RackEntries == { NaNEntry, Entry(39), Entry(40), Entry(45), Entry(520), Entry(525) }

SocketEntries == { NaNEntry, Entry(0), Entry(9), Entry(10), Entry(15), Entry(1000), Entry(1001) }

SecondarySocketEntries == { NaNEntry, Entry(-1), Entry(0), Entry(5), Entry(160), Entry(165) }

VoltageEntries == { NaNEntry, Entry(990), Entry(1000), Entry(4800), Entry(4810) }

CircuitCountEntries == { NaNEntry, Entry(0), Entry(10), Entry(60), Entry(70) }

CircuitAmpsEntries == { NaNEntry, Entry(0), Entry(10), Entry(630), Entry(640) }

\* the socket fields while devices are loaded and wired: a count of 1, and
\* entries that are turned down
WiredSocketEntries == { NaNEntry, Entry(9), Entry(15), Entry(1001) }

WiredSecondarySocketEntries == { NaNEntry, Entry(-1), Entry(5), Entry(165) }

\* two of the PDU_VARIANTS
CapacityChoices == { 3680, 7360 }

SocketTypeChoices == { "C13", "C19" }

\* an empty file, and a file of one row
UploadedCsvs ==
    { <<>>, <<Device(Kind("chassis", 5, 600, 1000, "C19", 2), 1, NullU, <<>>)>> }

GroupEdits == { [uHeight |-> 2, typical |-> 4000, max |-> 8000] }

\* the Dashboard after its first render: the values of useState, and the
\* effect run on DEFAULT_CSV
InitConfig ==
    /\ rackSize = 48
    /\ baseSocketsPerPDU = 20
    /\ secondarySocketsPerPDU = 4
    /\ manualPduPairs = NoManual
    /\ pduCols = 1
    /\ basePduCapacity = 7360
    /\ safetyMargin = 80
    /\ powerFactor = 95
    /\ pduVoltage = 230
    /\ pduCircuitCount = 1
    /\ pduCircuitAmps = 32
    /\ socketType = "C13"
    /\ secondarySocketType = "C19"
    /\ csvInput = DefaultCsv
    /\ effectPending = FALSE
    /\ optimization = NoOptimization
    /\ activeDevices = EffectDevices(DefaultCsv)
    /\ lastOp = Op("init", "loaded", {})

\* a handler runs once the pending effect has run
NextConfig ==
    \/ csvEffect
    \/ ~effectPending /\ \E val \in WiredSocketEntries : handleApplySockets(val)
    \/ ~effectPending /\ \E val \in WiredSecondarySocketEntries :
          handleApplySecondarySockets(val)
    \/ ~effectPending /\ handleReset
    \/ ~effectPending /\ \E content \in UploadedCsvs : handleFileUpload(content)
    \/ ~effectPending /\ pairMinus
    \/ ~effectPending /\ pairPlus
    \/ ~effectPending /\ \E power \in CapacityChoices : setBasePduCapacity(power)
    \/ ~effectPending /\ \E type \in SocketTypeChoices : setSocketType(type)
    \/ ~effectPending /\ \E type \in SocketTypeChoices : setSecondarySocketType(type)
    \/ ~effectPending /\ \E i \in 1..Len(activeDevices) : \E editValues \in GroupEdits :
          saveGroupEdit(activeDevices[i].name, editValues)

SpecConfig == InitConfig /\ [][NextConfig]_vars

\* the four apply handlers and Reset on their own, over every entry
NextApply ==
    \/ \E val \in RackEntries : handleApplyRackSize(val)
    \/ \E val \in SocketEntries : handleApplySockets(val)
    \/ \E val \in SecondarySocketEntries : handleApplySecondarySockets(val)
    \/ \E v \in VoltageEntries : \E c \in CircuitCountEntries : \E a \in CircuitAmpsEntries :
          handleApplyCircuitConfig(v, c, a)
    \/ handleReset

SpecApply == InitConfig /\ [][NextApply]_vars

\* the rack sizes applied and the heights chosen in the group editor while
\* devices are loaded
RackSizeEntries == { Entry(40), Entry(50) }

EditedHeights == { 1, 2 }

\* a loaded CSV, then drops on rack slots, group edits of the height (the other
\* two values as openGroupEditor took them from the sample), rack sizes applied
\* and auto-wiring
NextRack ==
    \/ handleAutoConnect
    \/ \E id \in DeviceIds : \E targetU \in 0..(rackSize + 1) : handleMoveDevice(id, targetU)
    \/ \E i \in 1..Len(activeDevices) : \E uHeight \in EditedHeights :
          saveGroupEdit(activeDevices[i].name,
                        [uHeight |-> uHeight, typical |-> activeDevices[i].typicalPower,
                         max |-> activeDevices[i].powerRatingPerDevice])
    \/ \E val \in RackSizeEntries : handleApplyRackSize(val)

SpecRack == Init /\ [][NextRack]_vars

-----------------------------------------------------------------------------
(* Properties of the auto-wiring engine.                                   *)

\* the state is the device list runAutoConnect returned
Wired == lastOp.op \in {"handleAutoConnect", "loadCsv"}

Connections(d) == { p \in DOMAIN d.psuConnections : d.psuConnections[p] # NullConn }

TouchesPdu(d, pid) == \E p \in Connections(d) : d.psuConnections[p].pduId = pid

\* the PDU ids some connection names
ReferencedPdus(devices) ==
    { devices[i].psuConnections[p].pduId :
        <<i, p>> \in UNION { {j} \X Connections(devices[j]) : j \in 1..Len(devices) } }

\* the max power of the devices with a PSU on the PDU, each device once
DevicePowerOn(devices, pid) ==
    SumSeq([i \in 1..Len(devices) |->
              IF TouchesPdu(devices[i], pid) THEN devices[i].powerRatingPerDevice ELSE 0])

\* C1  Capacity invariant: in the list runAutoConnect returns, for every PDU the
\* summed max power of the devices with a PSU on it (each device once) is at
\* most basePduCapacity * powerFactor * (safetyMargin / 100).
C1_CapacityInvariant ==
    Wired =>
      \A pid \in ReferencedPdus(activeDevices) \cup PduIds(activePduPairs) :
         DevicePowerOn(activeDevices, pid) * 10000
           <= basePduCapacity * powerFactor * safetyMargin

\* a wiring in which capacity decided: a placed device has a PSU left null while
\* a loaded PDU could not take its power
C1_Witness ==
    /\ Wired
    /\ \E i \in 1..Len(activeDevices) : \E pid \in PduIds(activePduPairs) :
          /\ ~NotPlaced(activeDevices[i])
          /\ \E p \in DOMAIN activeDevices[i].psuConnections :
                activeDevices[i].psuConnections[p] = NullConn
          /\ DevicePowerOn(activeDevices, pid) > 0
          /\ (DevicePowerOn(activeDevices, pid) + activeDevices[i].powerRatingPerDevice) * 10000
               > basePduCapacity * powerFactor * safetyMargin

\* the max power of the PSU connections on circuit c of the PDU
CircuitWatts(devices, pid, c) ==
    LET perCircuit == CeilDiv(baseSocketsPerPDU + secondarySocketsPerPDU, pduCircuitCount)
    IN  SumSeq([i \in 1..Len(devices) |->
                  devices[i].powerRatingPerDevice *
                    Cardinality({ p \in Connections(devices[i]) :
                                    /\ devices[i].psuConnections[p].pduId = pid
                                    /\ devices[i].psuConnections[p].socketIndex \div perCircuit = c })])

\* C2  Circuit invariant: in the list runAutoConnect returns, for every PDU and
\* circuit the connected max power, as (W / powerFactor) / voltage, is at most
\* circuitAmps * (safetyMargin / 100).
C2_CircuitInvariant ==
    Wired =>
      \A pid \in ReferencedPdus(activeDevices) : \A c \in 0..(pduCircuitCount - 1) :
         CircuitWatts(activeDevices, pid, c) * 10000
           <= pduCircuitAmps * safetyMargin * powerFactor * pduVoltage

\* C4  Type compatibility: in the list runAutoConnect returns, every connection's
\* socket lies in a zone (primary below baseSocketsPerPDU, else secondary) whose
\* connector type is the device's connectionType.
C4_TypeCompatibility ==
    Wired =>
      \A i \in 1..Len(activeDevices) : \A p \in Connections(activeDevices[i]) :
         LET s == activeDevices[i].psuConnections[p].socketIndex
         IN  activeDevices[i].connectionType =
               (IF s < baseSocketsPerPDU THEN socketType ELSE secondarySocketType)

\* a wiring the compaction pass reordered, with a connection in each zone
C4_Witness ==
    /\ Wired
    /\ lastOp.outcome = "reordered"
    /\ \E i \in 1..Len(activeDevices) : \E p \in Connections(activeDevices[i]) :
          activeDevices[i].psuConnections[p].socketIndex < baseSocketsPerPDU
    /\ \E i \in 1..Len(activeDevices) : \E p \in Connections(activeDevices[i]) :
          activeDevices[i].psuConnections[p].socketIndex >= baseSocketsPerPDU

\* C5  Matched-pair redundancy: in the list runAutoConnect returns, every dual-PSU
\* device whose matched-pair search succeeded has PSU 0 on A_k and PSU 1 on B_k
\* of one pair k, at the same socket index.
C5_MatchedPairs ==
    Wired =>
      \A i \in 1..Len(activeDevices) :
         activeDevices[i].id \in lastOp.matched =>
           LET c0 == activeDevices[i].psuConnections[0]
               c1 == activeDevices[i].psuConnections[1]
           IN  /\ c0.pduId[1] = "A"
               /\ c1.pduId[1] = "B"
               /\ c0.pduId[2] = c1.pduId[2]
               /\ c0.socketIndex = c1.socketIndex

\* C6  Sizing lower bound: with a positive effective capacity and at least one
\* socket per PDU, calculatedPduPairs times the effective capacity is at least the
\* total max power of all devices, and calculatedPduPairs * (baseSocketsPerPDU +
\* secondarySocketsPerPDU) * 2 is at least the total PSU count.
C6_SizingLowerBound ==
    (/\ basePduCapacity * powerFactor * safetyMargin > 0
     /\ baseSocketsPerPDU + secondarySocketsPerPDU >= 1) =>
       /\ calculatedPduPairs * (basePduCapacity * powerFactor * safetyMargin)
            >= TotalMaxPower(activeDevices) * 10000
       /\ calculatedPduPairs * (baseSocketsPerPDU + secondarySocketsPerPDU) * 2
            >= TotalPSUs(activeDevices)

\* a sizing of two pairs or more: one pair fewer cannot carry the power, and a
\* single pair cannot seat the PSUs
C6_Witness ==
    /\ calculatedPduPairs >= 2
    /\ (calculatedPduPairs - 1) * (basePduCapacity * powerFactor * safetyMargin)
         < TotalMaxPower(activeDevices) * 10000
    /\ TotalPSUs(activeDevices) > 2 * (baseSocketsPerPDU + secondarySocketsPerPDU)

-----------------------------------------------------------------------------
(* Properties of the compaction pass.                                      *)

\* the state is the device list optimizeWiring returned
Compacted == lastOp.op = "optimizeWiring"

\* the socket indices of the PDU that some connection holds
OccupiedSockets(devices, pid) ==
    { devices[i].psuConnections[p].socketIndex :
        <<i, p>> \in { x \in UNION { {j} \X Connections(devices[j]) : j \in 1..Len(devices) } :
                         devices[x[1]].psuConnections[x[2]].pduId = pid } }

\* some device has two PSUs on the same PDU
SamePduTie(devices) ==
    \E i \in 1..Len(devices) : \E p, q \in Connections(devices[i]) :
       /\ p # q
       /\ ~NotPlaced(devices[i])
       /\ devices[i].psuConnections[p].pduId = devices[i].psuConnections[q].pduId

\* C7  Idempotence of compaction: applied to a list it returned, optimizeWiring
\* assigns every (device, psuIndex) the (pduId, socketIndex) it already has, also
\* when one device has several PSUs on the same PDU.
C7_Idempotence ==
    Compacted =>
      \A i \in 1..Len(activeDevices) : \A p \in DOMAIN activeDevices[i].psuConnections :
         optimizeWiring(activeDevices, baseSocketsPerPDU)[i].psuConnections[p]
           = activeDevices[i].psuConnections[p]

\* a list the pass changed, in which a device has two PSUs on one PDU
C7_Witness ==
    /\ Compacted
    /\ lastOp.outcome = "reassigned"
    /\ SamePduTie(activeDevices)

\* C8  Compaction preserves occupancy and PDU assignment: the pass leaves the set
\* of occupied socket indices of each PDU as it was, keeps every (device,
\* psuIndex) on its PDU and in its zone, keeps null connections null, and adds or
\* removes no connection.
C8_PreservesOccupancy ==
    [][ lastOp'.op = "optimizeWiring" =>
          /\ Len(activeDevices') = Len(activeDevices)
          /\ \A i \in 1..Len(activeDevices) :
                /\ DOMAIN activeDevices'[i].psuConnections
                     = DOMAIN activeDevices[i].psuConnections
                /\ \A p \in DOMAIN activeDevices[i].psuConnections :
                      LET old == activeDevices[i].psuConnections[p]
                          new == activeDevices'[i].psuConnections[p]
                      IN  /\ (old = NullConn) = (new = NullConn)
                          /\ new.pduId = old.pduId
                          /\ (new.socketIndex < baseSocketsPerPDU)
                               = (old.socketIndex < baseSocketsPerPDU)
          /\ \A pid \in PduIds(1) :
                OccupiedSockets(activeDevices', pid) = OccupiedSockets(activeDevices, pid)
      ]_vars

\* a list the pass changed, with connections in both zones of one PDU
C8_Witness ==
    /\ Compacted
    /\ lastOp.outcome = "reassigned"
    /\ \E pid \in PduIds(1) :
          /\ \E s \in OccupiedSockets(activeDevices, pid) : s < baseSocketsPerPDU
          /\ \E s \in OccupiedSockets(activeDevices, pid) : s >= baseSocketsPerPDU

\* C9 as stated: after the pass, in each zone of each PDU there is no free socket
\* below an occupied one.
C9_NoGaps ==
    Compacted =>
      \A pid \in PduIds(1) : \A s \in OccupiedSockets(activeDevices, pid) :
         \A t \in 0..(s - 1) :
            (t < baseSocketsPerPDU) = (s < baseSocketsPerPDU) =>
               t \in OccupiedSockets(activeDevices, pid)

\* C9  The pass hands out only the socket indices that were in use: a socket that
\* is free before the pass is free after it, so a gap below an occupied socket
\* stays.
C9_GapsKept ==
    [][ lastOp'.op = "optimizeWiring" =>
          \A pid \in PduIds(1) : \A s \in 0..(TotalSocketsPerPDU - 1) :
             s \notin OccupiedSockets(activeDevices, pid) =>
               s \notin OccupiedSockets(activeDevices', pid)
      ]_vars

\* a list the pass changed that has a free socket below an occupied one of the
\* same zone
C9_Witness ==
    /\ Compacted
    /\ lastOp.outcome = "reassigned"
    /\ \E pid \in PduIds(1) : \E s \in OccupiedSockets(activeDevices, pid) :
          \E t \in 0..(s - 1) :
             /\ (t < baseSocketsPerPDU) = (s < baseSocketsPerPDU)
             /\ t \notin OccupiedSockets(activeDevices, pid)

-----------------------------------------------------------------------------
(* Properties of the manual edits.                                         *)

\* C3  Socket uniqueness: in every state reached from a CSV load by auto-wiring,
\* manual connection updates, disconnects and device moves, no two distinct
\* (device, psuIndex) hold the same (pduId, socketIndex).
C3_SocketUniqueness ==
    \A i, j \in 1..Len(activeDevices) :
       \A p \in Connections(activeDevices[i]) : \A q \in Connections(activeDevices[j]) :
          (i # j \/ p # q) =>
             activeDevices[i].psuConnections[p] # activeDevices[j].psuConnections[q]

\* a cable was dropped on a socket another PSU held, and that PSU is connected
\* elsewhere now
C3_Witness ==
    /\ lastOp.op = "handleConnectionUpdate"
    /\ lastOp.outcome = "displaced"
    /\ \E i, j \in 1..Len(activeDevices) :
          /\ i # j
          /\ Connections(activeDevices[i]) # {}
          /\ Connections(activeDevices[j]) # {}

\* every placed device inside the rack and no two placed devices overlapping
LayoutValid(devices) ==
    /\ \A i \in 1..Len(devices) :
          devices[i].uPosition # NullU =>
             /\ devices[i].uPosition <= rackSize
             /\ devices[i].uPosition - devices[i].uHeight + 1 >= 1
    /\ \A i, j \in 1..Len(devices) :
          (i # j /\ devices[i].uPosition # NullU /\ devices[j].uPosition # NullU) =>
             \/ devices[i].uPosition < devices[j].uPosition - devices[j].uHeight + 1
             \/ devices[j].uPosition < devices[i].uPosition - devices[i].uHeight + 1

\* C10  Atomic rejection of conflicting moves: handleMoveDevice(id, targetU)
\* returns the device list unchanged when the layout the move or swap would give
\* has a placed device outside the rack or two placed devices overlapping;
\* otherwise it returns that layout, which has neither.
C10_AtomicRejection ==
    [][ lastOp'.op = "handleMoveDevice" =>
          \A id \in DeviceIds : \A targetU \in 0..(rackSize + 1) :
             handleMoveDevice(id, targetU) =>
                IF LayoutValid(MovedDevices(activeDevices, id, targetU))
                THEN /\ activeDevices' = MovedDevices(activeDevices, id, targetU)
                     /\ LayoutValid(activeDevices')
                ELSE activeDevices' = activeDevices
      ]_vars

\* a swap was rejected: the layout it would have given had a conflict
C10_Witness ==
    /\ lastOp.op = "handleMoveDevice"
    /\ lastOp.outcome = "swapRejected"
    /\ LayoutValid(activeDevices)

\* (pduId, socketIndex) is held by a (device, psuIndex) other than (id, psuIndex)
HeldByOther(devices, id, psuIndex, pduId, socketIndex) ==
    \E j \in 1..Len(devices) : \E q \in Connections(devices[j]) :
       /\ devices[j].psuConnections[q] = [pduId |-> pduId, socketIndex |-> socketIndex]
       /\ (devices[j].id # id \/ q # psuIndex)

\* C11 as stated: handleConnectionUpdate on a socket that another (device,
\* psuIndex) holds returns the device list unchanged.
C11_ConflictRejected ==
    [][ lastOp'.op = "handleConnectionUpdate" =>
          \A id \in DeviceIds : \A psuIndex \in PsuIndices(id) :
             \A pduId \in PduIds(activePduPairs) : \A s \in 0..(TotalSocketsPerPDU - 1) :
                (/\ HeldByOther(activeDevices, id, psuIndex, pduId, s)
                 /\ handleConnectionUpdate(id, psuIndex, pduId, s)) =>
                   activeDevices' = activeDevices
      ]_vars

\* C11  handleConnectionUpdate on a socket that another (device, psuIndex) holds
\* is applied as an exchange: the source PSU gets the socket, the PSU that held it
\* gets the source PSU's previous connection (null when it had none), and no
\* other connection changes.
C11_OccupantDisplaced ==
    [][ lastOp'.op = "handleConnectionUpdate" =>
          \A id \in DeviceIds : \A psuIndex \in PsuIndices(id) :
             \A pduId \in PduIds(activePduPairs) : \A s \in 0..(TotalSocketsPerPDU - 1) :
                (/\ HeldByOther(activeDevices, id, psuIndex, pduId, s)
                 /\ handleConnectionUpdate(id, psuIndex, pduId, s)) =>
                   \A i \in 1..Len(activeDevices) :
                      \A p \in DOMAIN activeDevices'[i].psuConnections :
                         activeDevices'[i].psuConnections[p] =
                            IF activeDevices[i].id = id /\ p = psuIndex
                            THEN [pduId |-> pduId, socketIndex |-> s]
                            ELSE IF ConnOf(activeDevices[i], p) = [pduId |-> pduId, socketIndex |-> s]
                                 THEN ConnOf(activeDevices[FindDevice(activeDevices, id)], psuIndex)
                                 ELSE ConnOf(activeDevices[i], p)
      ]_vars

\* a cable was dropped on a held socket and every PSU is connected afterwards:
\* the two PSUs exchanged their sockets
C11_Witness ==
    /\ lastOp.op = "handleConnectionUpdate"
    /\ lastOp.outcome = "displaced"
    /\ \A i \in 1..Len(activeDevices) : \A p \in DOMAIN activeDevices[i].psuConnections :
          activeDevices[i].psuConnections[p] # NullConn

\* C12  Manual patches respect connector zones: after handleConnectionUpdate
\* every connected PSU is on a socket whose zone connector type is the device's
\* connectionType.
C12_ManualZones ==
    lastOp.op = "handleConnectionUpdate" =>
      \A i \in 1..Len(activeDevices) : \A p \in Connections(activeDevices[i]) :
         activeDevices[i].connectionType =
            (IF activeDevices[i].psuConnections[p].socketIndex >= baseSocketsPerPDU
             THEN secondarySocketType ELSE socketType)

-----------------------------------------------------------------------------
(* C13: invalid configuration entries are rejected without state change.   *)

Committed == <<rackSize, baseSocketsPerPDU, secondarySocketsPerPDU, pduVoltage,
               pduCircuitCount, pduCircuitAmps>>

\* the entry is not a number or lies outside lo..hi
OutOfRange(val, lo, hi) == val.isNaN \/ val.tenths < lo * 10 \/ val.tenths > hi * 10

NothingCommitted == Committed' = Committed /\ activeDevices' = activeDevices

CommittedInRange ==
    /\ rackSize \in 4..52
    /\ baseSocketsPerPDU \in 1..100
    /\ secondarySocketsPerPDU \in 0..16
    /\ pduVoltage \in 100..480
    /\ pduCircuitCount \in 1..6
    /\ pduCircuitAmps \in 1..63

\* C13: an apply handler given an entry outside its range (rack 4..52, sockets
\* 1..100, secondary 0..16, voltage 100..480, circuits 1..6, amps 1..63) leaves
\* the six committed values and the device list as they were, the circuit
\* handler committing none of its three values when any one is invalid; and the
\* committed values stay inside those ranges under the handlers and Reset.
C13_InvalidRejected ==
    /\ []CommittedInRange
    /\ [][ /\ lastOp'.op = "handleApplyRackSize" =>
                \A val \in RackEntries :
                    (OutOfRange(val, 4, 52) /\ handleApplyRackSize(val)) => NothingCommitted
           /\ lastOp'.op = "handleApplySockets" =>
                \A val \in SocketEntries :
                    (OutOfRange(val, 1, 100) /\ handleApplySockets(val)) => NothingCommitted
           /\ lastOp'.op = "handleApplySecondarySockets" =>
                \A val \in SecondarySocketEntries :
                    (OutOfRange(val, 0, 16) /\ handleApplySecondarySockets(val))
                        => NothingCommitted
           /\ lastOp'.op = "handleApplyCircuitConfig" =>
                \A v \in VoltageEntries, c \in CircuitCountEntries, a \in CircuitAmpsEntries :
                    (/\ OutOfRange(v, 100, 480) \/ OutOfRange(c, 1, 6) \/ OutOfRange(a, 1, 63)
                     /\ handleApplyCircuitConfig(v, c, a)) => NothingCommitted ]_vars

\* the circuit handler has turned down an amperage entered next to a valid
\* voltage and circuit count, after an earlier entry had been committed
C13_Witness ==
    /\ lastOp.op = "handleApplyCircuitConfig"
    /\ lastOp.outcome = "Invalid Amperage"
    /\ pduCircuitCount = 6
    /\ pduCircuitAmps = 63

-----------------------------------------------------------------------------
(* C14: a device that cannot be wired ends with null connections.          *)

Placed(d) == d.uPosition # NullU

\* neither socket group has sockets of the device's connector type
NoZoneFor(d) ==
    /\ baseSocketsPerPDU = 0 \/ socketType # d.connectionType
    /\ secondarySocketsPerPDU = 0 \/ secondarySocketType # d.connectionType

\* the device's max power exceeds the capacity of an empty PDU
TooHeavy(d) == d.powerRatingPerDevice * 10000 > basePduCapacity * powerFactor * safetyMargin

AllNull(d) ==
    /\ DOMAIN d.psuConnections = 0..(d.psuCount - 1)
    /\ \A p \in 0..(d.psuCount - 1) : d.psuConnections[p] = NullConn

-----------------------------------------------------------------------------
(* pduLoads: the load the Dashboard shows for each PDU.                    *)

\* deviceTyp / pduIds.size is carried times TypicalScale, which every size
\* up to 6 divides
TypicalScale == 60

\* pduIds: the PDU ids of the connections that are not null
PduIdsOf(d) ==
    { d.psuConnections[p].pduId :
        p \in { q \in DOMAIN d.psuConnections : d.psuConnections[q] # NullConn } }

\* the device's power added once for each of its PSUs on the PDU
AddDevicePerPsu(loads, d, pduIds) ==
    [pid \in DOMAIN loads |->
        [typical |-> loads[pid].typical,
         max |-> loads[pid].max + d.powerRatingPerDevice *
                   Cardinality({ q \in DOMAIN d.psuConnections :
                                   d.psuConnections[q].pduId = pid })]]

\* pduIds.forEach(pid => { if (loads[pid]) { ... } })
AddDevice(loads, d, pduIds) ==
    [pid \in DOMAIN loads |->
        IF pid \in pduIds
        THEN [typical |-> loads[pid].typical
                            + (d.typicalPower * TypicalScale) \div Cardinality(pduIds),
              max |-> loads[pid].max + d.powerRatingPerDevice]
        ELSE loads[pid]]

\* activeDevices.forEach over the loads of the PDUs in the list
RECURSIVE AddDevices(_, _, _)
AddDevices(loads, devices, n) ==
    IF n > Len(devices) THEN loads
    ELSE AddDevices(AddDevice(loads, devices[n], PduIdsOf(devices[n])), devices, n + 1)

pduLoads ==
    AddDevices([pid \in PduIds(activePduPairs) |-> [typical |-> 0, max |-> 0]],
               activeDevices, 1)

-----------------------------------------------------------------------------
(* optimizePowerDistribution: the bin-packing grouper, on one rack.        *)

\* a sorts before b: b.powerRatingPerDevice - a.powerRatingPerDevice < 0, the
\* sort being stable
PowerSortsBefore(devices, i, j) ==
    \/ devices[i].powerRatingPerDevice > devices[j].powerRatingPerDevice
    \/ devices[i].powerRatingPerDevice = devices[j].powerRatingPerDevice /\ i < j

\* [...rack.devices].sort(...)
SortedByPower(devices) ==
    [r \in 1..Len(devices) |->
       devices[CHOOSE i \in 1..Len(devices) :
                 Cardinality({ j \in 1..Len(devices) : PowerSortsBefore(devices, j, i) }) = r - 1]]

\* the pre-allocated pairs: Math.max(1, minPDUs) of them, empty
InitialPairs(totalPower, capacity) ==
    [i \in 1..Max2(1, CeilDiv(totalPower * 10000, capacity)) |->
        [id |-> i, capacity |-> capacity, currentLoad |-> 0, devices |-> <<>>]]

\* the test that ignores the device's own power
FitsNow(pair, device, capacity) == pair.currentLoad * 10000 <= capacity

\* p.currentLoad + device.powerRatingPerDevice <= effectiveWattCapacity
Fits(pair, device, capacity) ==
    (pair.currentLoad + device.powerRatingPerDevice) * 10000 <= capacity

\* the first of the pairs the device fits, whatever their loads; 0 when there is
\* none
SelectedFirstFit(pduPairs, device, capacity) ==
    IF \E i \in 1..Len(pduPairs) : Fits(pduPairs[i], device, capacity)
    THEN CHOOSE i \in 1..Len(pduPairs) :
           /\ Fits(pduPairs[i], device, capacity)
           /\ \A j \in 1..(i - 1) : ~Fits(pduPairs[j], device, capacity)
    ELSE 0

\* validPDUs[0] after the stable sort by currentLoad: the least loaded of the
\* pairs the device fits, the first of them on a tie; 0 when validPDUs is empty
SelectedPDU(pduPairs, device, capacity) ==
    IF \E i \in 1..Len(pduPairs) : Fits(pduPairs[i], device, capacity)
    THEN CHOOSE i \in 1..Len(pduPairs) :
           /\ Fits(pduPairs[i], device, capacity)
           /\ \A j \in 1..Len(pduPairs) :
                Fits(pduPairs[j], device, capacity) =>
                   \/ pduPairs[i].currentLoad < pduPairs[j].currentLoad
                   \/ pduPairs[i].currentLoad = pduPairs[j].currentLoad /\ i <= j
    ELSE 0

\* one turn of sortedDevices.forEach: into the selected pair, else a new pair
AssignTo(pduPairs, device, capacity, selected) ==
    IF selected # 0
    THEN [pduPairs EXCEPT ![selected] =
            [@ EXCEPT !.devices = Append(@, device),
                      !.currentLoad = @ + device.powerRatingPerDevice]]
    ELSE Append(pduPairs, [id |-> Len(pduPairs) + 1, capacity |-> capacity,
                           currentLoad |-> device.powerRatingPerDevice,
                           devices |-> <<device>>])

RECURSIVE AssignAll(_, _, _, _)
AssignAll(sorted, n, pduPairs, capacity) ==
    IF n > Len(sorted) THEN pduPairs
    ELSE AssignAll(sorted, n + 1,
                   AssignTo(pduPairs, sorted[n], capacity,
                            SelectedPDU(pduPairs, sorted[n], capacity)),
                   capacity)

HasDevices(pair) == pair.devices # <<>>

\* every pair kept, the empty ones too
AllPairs(pduPairs) == pduPairs

\* pduPairs.filter(p => p.devices.length > 0)
ActivePairs(pduPairs) == SelectSeq(pduPairs, HasDevices)

\* the result for one rack; the capacity pduCapacityVA * powerFactor *
\* (safetyMargin / 100) is carried times 10000
optimizePowerDistribution(devices, pduCapacityVA, margin, factor) ==
    [pduPairs |-> ActivePairs(AssignAll(SortedByPower(devices), 1,
                                        InitialPairs(TotalMaxPower(devices),
                                                     pduCapacityVA * factor * margin),
                                        pduCapacityVA * factor * margin)),
     unassignedDevices |-> <<>>]

PackKinds ==
    { Kind("kvm", 1, 0, 0, "C13", 1),
      Kind("console", 1, 600, 1000, "C13", 1),
      Kind("storage", 2, 1200, 2000, "C13", 1),
      Kind("server", 2, 1800, 3000, "C13", 1),
      Kind("chassis", 3, 4800, 8000, "C19", 2) }

\* a rack of up to MaxPackDevices devices, and one of two PDU capacities
InitPack ==
    /\ \E capacity \in CapacityChoices : SetConfig(Config(48, 20, 4, NoManual, 1, capacity, 1, 32))
    /\ \E n \in 0..MaxPackDevices : \E devices \in CsvDevices(PackKinds, n) :
          activeDevices = devices
    /\ lastOp = Op("init", "unwired", {})
    /\ csvInput = <<>>
    /\ effectPending = FALSE
    /\ optimization = NoOptimization

Optimize ==
    /\ optimization' = optimizePowerDistribution(activeDevices, basePduCapacity,
                                                 safetyMargin, powerFactor)
    /\ lastOp' = Op("optimizePowerDistribution", "grouped", {})
    /\ UNCHANGED <<config, csvInput, effectPending, activeDevices>>

NextPack == Optimize

SpecPack == InitPack /\ [][NextPack]_vars

-----------------------------------------------------------------------------
(* C15, C16: the groups of optimizePowerDistribution.                      *)

Grouped == lastOp.op = "optimizePowerDistribution"

\* how many times the device of the given id occurs in the groups
Occurrences(pduPairs, id) ==
    SumSeq([g \in 1..Len(pduPairs) |->
              Cardinality({ k \in 1..Len(pduPairs[g].devices) : pduPairs[g].devices[k].id = id })])

\* C15: optimizePowerDistribution returns, for every rack and positive
\* capacity, groups in which every device of the rack occurs exactly once and
\* nothing else occurs, none of them empty, each with currentLoad equal to the
\* sum of its members' powerRatingPerDevice, and no unassigned device.
C15_EveryDevicePlaced ==
    Grouped =>
      /\ \A i \in 1..Len(activeDevices) :
            Occurrences(optimization.pduPairs, activeDevices[i].id) = 1
      /\ \A g \in 1..Len(optimization.pduPairs) :
            /\ optimization.pduPairs[g].devices # <<>>
            /\ \A k \in 1..Len(optimization.pduPairs[g].devices) :
                  \E i \in 1..Len(activeDevices) :
                     optimization.pduPairs[g].devices[k] = activeDevices[i]
            /\ optimization.pduPairs[g].currentLoad =
                  TotalMaxPower(optimization.pduPairs[g].devices)
      /\ optimization.unassignedDevices = <<>>

\* a grouping of four devices into several groups, one of them made by the
\* fallback branch after the pre-allocated ones
C15_Witness ==
    /\ Grouped
    /\ Len(activeDevices) = MaxPackDevices
    /\ \E g, h \in 1..Len(optimization.pduPairs) :
          /\ Len(optimization.pduPairs[g].devices) >= 2
          /\ optimization.pduPairs[h].id >
               CeilDiv(TotalMaxPower(activeDevices) * 10000,
                       basePduCapacity * powerFactor * safetyMargin)

\* C16 as stated: every group's currentLoad is at most its capacity
C16_CapacityBounded ==
    Grouped =>
      \A g \in 1..Len(optimization.pduPairs) :
         optimization.pduPairs[g].currentLoad * 10000 <= optimization.pduPairs[g].capacity

\* C16: every group's currentLoad is at most its capacity, except a group made
\* of a single device whose own power exceeds the capacity
C16_BoundedButOversized ==
    Grouped =>
      \A g \in 1..Len(optimization.pduPairs) :
         \/ optimization.pduPairs[g].currentLoad * 10000 <= optimization.pduPairs[g].capacity
         \/ /\ Len(optimization.pduPairs[g].devices) = 1
            /\ optimization.pduPairs[g].devices[1].powerRatingPerDevice * 10000
                 > optimization.pduPairs[g].capacity

\* a grouping with an oversized device alone in its group beside a group of
\* several devices
C16_Witness ==
    /\ Grouped
    /\ \E g, h \in 1..Len(optimization.pduPairs) :
          /\ optimization.pduPairs[g].currentLoad * 10000 > optimization.pduPairs[g].capacity
          /\ Len(optimization.pduPairs[h].devices) >= 2

-----------------------------------------------------------------------------
(* C17: the pair count in use is at least 1.                               *)

\* C17: in every state reached through the pair buttons, Reset, CSV loads,
\* group edits and configuration changes the pair count in use is at least 1,
\* a manual override that is set is at least 1 and is the pair count in use,
\* and the PDU list holds A1 and B1.
C17_AtLeastOnePair ==
    /\ activePduPairs >= 1
    /\ manualPduPairs # NoManual => manualPduPairs >= 1 /\ activePduPairs = manualPduPairs
    /\ manualPduPairs = NoManual => activePduPairs = calculatedPduPairs
    /\ {PduId("A", 0), PduId("B", 0)} \subseteq PduIds(activePduPairs)

\* the minus button pressed to no effect while the override is set and lies
\* below the pair count the devices now require
C17_Witness ==
    /\ lastOp.op = "pairMinus"
    /\ manualPduPairs # NoManual
    /\ manualPduPairs < calculatedPduPairs

-----------------------------------------------------------------------------
(* C18: the sizing is the least pair count that meets both requirements.   *)

\* n pairs carry the total max power and seat half the PSUs on each side
PairsSuffice(n, devices) ==
    /\ n * (basePduCapacity * powerFactor * safetyMargin) >= TotalMaxPower(devices) * 10000
    /\ n * (baseSocketsPerPDU + secondarySocketsPerPDU) * 2 >= TotalPSUs(devices)

\* C18: calculatedPduPairs is the smallest n >= 1 whose n pairs carry the total
\* max power and seat the PSUs, that is max(1, ceil(totalMaxPower /
\* effectiveCapacity), ceil((totalPSUs / 2) / totalSocketsPerPDU)); and the pair
\* count the CSV-load effect computes for the devices it loads is
\* calculatedPduPairs of the list it leaves.
C18_SizingIsMinimum ==
    /\ calculatedPduPairs >= 1
    /\ PairsSuffice(calculatedPduPairs, activeDevices)
    /\ \A n \in 1..(calculatedPduPairs - 1) : ~PairsSuffice(n, activeDevices)
    /\ (lastOp.op = "csvEffect" /\ lastOp.outcome = "loaded") =>
          EffectCalculatedPairs(csvInput) = calculatedPduPairs

\* the effect has loaded devices whose PSUs, not their power, ask for a second
\* pair
C18_Witness ==
    /\ lastOp.op = "csvEffect" /\ lastOp.outcome = "loaded"
    /\ calculatedPduPairs >= 2
    /\ PairsByPower(activeDevices) < PairsBySockets(activeDevices)

-----------------------------------------------------------------------------
(* C19: the derived PDU loads.                                             *)

\* C19: pduLoads has an entry for each PDU of the list and no other; its max
\* is the sum of powerRatingPerDevice over the devices with at least one
\* non-null connection to that PDU, each device once; so a device without a
\* connection adds nowhere, and a connection to a PDU id outside the list adds
\* to no entry.
C19_DerivedLoads ==
    /\ DOMAIN pduLoads = PduIds(activePduPairs)
    /\ \A pid \in PduIds(activePduPairs) :
          pduLoads[pid].max = DevicePowerOn(activeDevices, pid)

\* a device with two PSUs on one PDU of the list, while some connection names
\* a PDU that is no longer in the list
C19_Witness ==
    /\ \E i \in 1..Len(activeDevices) : \E p, q \in Connections(activeDevices[i]) :
          /\ p # q
          /\ activeDevices[i].psuConnections[p].pduId = activeDevices[i].psuConnections[q].pduId
          /\ activeDevices[i].psuConnections[p].pduId \in PduIds(activePduPairs)
    /\ ReferencedPdus(activeDevices) \ PduIds(activePduPairs) # {}

-----------------------------------------------------------------------------
(* C20: regenerating the PDU list leaves the devices alone.                *)

RegeneratesPdus ==
    { "pairMinus", "pairPlus", "handleApplySockets", "handleApplySecondarySockets",
      "setBasePduCapacity", "setSocketType", "setSecondarySocketType" }

\* C20: a change of the pair count by the plus and minus buttons, of the socket
\* counts, of the PDU capacity or of a connector type leaves the device list,
\* and so every psuConnections entry, as it was; connections that name a PDU
\* no longer in the list stay in place.
C20_DevicesUntouched ==
    [][ lastOp'.op \in RegeneratesPdus => activeDevices' = activeDevices ]_vars

\* the minus button has just lowered the pair count and a connection still
\* names a PDU that is no longer in the list
C20_Witness ==
    /\ lastOp.op = "pairMinus"
    /\ lastOp.outcome = "set"
    /\ ReferencedPdus(activeDevices) \ PduIds(activePduPairs) # {}

-----------------------------------------------------------------------------
(* C21: the side of every connection auto-wiring makes.                    *)

SideOf(conn) == conn.pduId[1]

\* the number of placed single-PSU devices above device i: its place j in the
\* descending U order of the placed single-PSU devices
SingleRank(devices, i) ==
    Cardinality({ k \in 1..Len(devices) :
                    /\ devices[k].psuCount = 1
                    /\ ~NotPlaced(devices[k])
                    /\ devices[k].uPosition > devices[i].uPosition })

\* the side the rule gives PSU p of device i
RuleSide(devices, i, p) ==
    IF devices[i].psuCount = 1
    THEN (IF SingleRank(devices, i) % 2 = 0 THEN "A" ELSE "B")
    ELSE (IF p % 2 = 0 THEN "A" ELSE "B")

\* C21  Side assignment: in the list runAutoConnect returns, a connected PSU 0
\* of a dual-PSU device is on an A-side PDU and a connected PSU 1 on a B-side
\* PDU, so never both on one PDU; a device with another PSU count than 1 or 2
\* has its even PSU indices on side A and its odd ones on side B; the j-th
\* placed single-PSU device in descending U order, j counted from 0 over the
\* single-PSU devices only, is connected only on side A when j is even and only
\* on side B when j is odd.
C21_SideAssignment ==
    Wired =>
      \A i \in 1..Len(activeDevices) : \A p \in Connections(activeDevices[i]) :
         SideOf(activeDevices[i].psuConnections[p]) = RuleSide(activeDevices, i, p)

\* a wiring with a dual-PSU device on both sides, and two single-PSU devices of
\* which the lower one is on side B
C21_Witness ==
    /\ lastOp.op = "handleAutoConnect"
    /\ \E i \in 1..Len(activeDevices) :
          /\ activeDevices[i].psuCount = 2
          /\ Connections(activeDevices[i]) = {0, 1}
    /\ \E i, k \in 1..Len(activeDevices) :
          /\ activeDevices[i].psuCount = 1
          /\ activeDevices[k].psuCount = 1
          /\ activeDevices[i].uPosition > activeDevices[k].uPosition
          /\ Connections(activeDevices[i]) = {0}
          /\ Connections(activeDevices[k]) = {0}
          /\ SideOf(activeDevices[k].psuConnections[0]) = "B"

\* a wiring with a three-PSU device whose PSUs 0, 1 and 2 are all connected
C21_OddPsuWitness ==
    /\ lastOp.op = "handleAutoConnect"
    /\ \E i \in 1..Len(activeDevices) :
          /\ activeDevices[i].psuCount = 3
          /\ Connections(activeDevices[i]) = {0, 1, 2}

-----------------------------------------------------------------------------
(* C22, C23: the choices of the auto-wiring phases, read from the log.     *)

\* the decisions of the run of handleAutoConnect that gave this state
WiringLog == lastOp.log

\* the pduState the logged device met
EntryFor(e, pid) == CHOOSE entry \in e.pduState : entry[1] = pid

StateBefore(e) ==
    [pid \in { entry[1] : entry \in e.pduState } |->
       [currentLoad |-> EntryFor(e, pid)[2],
        usedSockets |-> EntryFor(e, pid)[3],
        circuitLoads |-> [c \in { cl[1] : cl \in EntryFor(e, pid)[4] } |->
                            (CHOOSE cl \in EntryFor(e, pid)[4] : cl[1] = c)[2]]]]

\* the pduState at the moment PSU p of the logged device is processed: the
\* state before the device with the reservations of its earlier PSUs
RECURSIVE StateAtPsu(_, _)
StateAtPsu(e, p) ==
    IF p = 0 THEN StateBefore(e)
    ELSE IF e.device.psuConnections[p - 1] = NullConn THEN StateAtPsu(e, p - 1)
         ELSE [StateAtPsu(e, p - 1) EXCEPT
                 ![e.device.psuConnections[p - 1].pduId] =
                     Reserve(StateAtPsu(e, p - 1)[e.device.psuConnections[p - 1].pduId],
                             e.device.psuConnections[p - 1].socketIndex,
                             e.device.powerRatingPerDevice)]

\* socket s of the PDU is free, of the device's connector type and on a circuit
\* that can take the device's load
LegalSocket(pdu, d, s) ==
    /\ s \notin pdu.usedSockets
    /\ TypeMatches(d, s)
    /\ checkCircuit(pdu, s, d.powerRatingPerDevice)

\* the sockets a PSU of the device may take on the PDU
LegalSockets(pdu, d) ==
    { s \in 0..(TotalSocketsPerPDU - 1) : LegalSocket(pdu, d, s) }

\* s is the nearest socket of the set to the device centre on the PDU strip of
\* pair k, the lowest index among the nearest
NearestIn(sockets, d, k, s) ==
    /\ s \in sockets
    /\ \A t \in sockets :
          \/ SocketDist(d, k, s, activePduPairs) < SocketDist(d, k, t, activePduPairs)
          \/ /\ SocketDist(d, k, s, activePduPairs) = SocketDist(d, k, t, activePduPairs)
             /\ s <= t

PairIndex(pduId) == pduId[2] - 1

\* the shared index of a matched pair is the nearest of the sockets legal on
\* both PDUs of the pair
NearestShared(e) ==
    NearestIn(LegalSockets(StateBefore(e)[e.device.psuConnections[0].pduId], e.device)
                \cap LegalSockets(StateBefore(e)[e.device.psuConnections[1].pduId], e.device),
              e.device, PairIndex(e.device.psuConnections[0].pduId),
              e.device.psuConnections[0].socketIndex)

\* the socket of PSU p is the nearest of the sockets legal on its PDU at the
\* moment PSU p is processed
NearestSingle(e, p) ==
    NearestIn(LegalSockets(StateAtPsu(e, p)[e.device.psuConnections[p].pduId], e.device),
              e.device, PairIndex(e.device.psuConnections[p].pduId),
              e.device.psuConnections[p].socketIndex)

\* C22  Nearest-socket choice: whenever runAutoConnect assigns a PSU to a socket
\* (or a shared index on a matched pair), the index minimises
\* |socketY - deviceCenterY| over all indices that are at that moment free (on
\* both PDUs for a matched pair), of the device's connector type and
\* circuit-admissible; among equally near indices the lowest is taken.
C22_NearestSocket ==
    lastOp.op = "handleAutoConnect" =>
      \A n \in 1..Len(WiringLog) :
         IF WiringLog[n].matched
         THEN NearestShared(WiringLog[n])
         ELSE \A p \in Connections(WiringLog[n].device) : NearestSingle(WiringLog[n], p)

\* a socket other than the lowest legal one has been chosen, and, for a PSU
\* wired on its own, a lower socket was legal too
C22_Witness ==
    /\ lastOp.op = "handleAutoConnect"
    /\ \E n \in 1..Len(WiringLog) :
          /\ WiringLog[n].matched
          /\ \E t \in LegalSockets(StateBefore(WiringLog[n])[WiringLog[n].device.psuConnections[0].pduId],
                                   WiringLog[n].device)
               \cap LegalSockets(StateBefore(WiringLog[n])[WiringLog[n].device.psuConnections[1].pduId],
                                 WiringLog[n].device) :
                t < WiringLog[n].device.psuConnections[0].socketIndex
    /\ \E n \in 1..Len(WiringLog) :
          /\ ~WiringLog[n].matched
          /\ \E p \in Connections(WiringLog[n].device) :
               \E t \in LegalSockets(StateAtPsu(WiringLog[n], p)[WiringLog[n].device.psuConnections[p].pduId],
                                     WiringLog[n].device) :
                  t < WiringLog[n].device.psuConnections[p].socketIndex

\* a PSU wired on its own had a second legal socket exactly as near as the one
\* it got
C22_TieWitness ==
    /\ lastOp.op = "handleAutoConnect"
    /\ \E n \in 1..Len(WiringLog) :
          /\ ~WiringLog[n].matched
          /\ \E p \in Connections(WiringLog[n].device) :
               \E t \in LegalSockets(StateAtPsu(WiringLog[n], p)[WiringLog[n].device.psuConnections[p].pduId],
                                     WiringLog[n].device) :
                  /\ t # WiringLog[n].device.psuConnections[p].socketIndex
                  /\ SocketDist(WiringLog[n].device,
                                PairIndex(WiringLog[n].device.psuConnections[p].pduId),
                                t, activePduPairs)
                     = SocketDist(WiringLog[n].device,
                                  PairIndex(WiringLog[n].device.psuConnections[p].pduId),
                                  WiringLog[n].device.psuConnections[p].socketIndex,
                                  activePduPairs)

\* the side on which PSU p of a device wired PSU by PSU is tried: the fallback of
\* Phase 1 for a dual-PSU device, Phase 2 for every other
TriedSide(e, p) ==
    IF e.device.psuCount = 2 THEN (IF p = 0 THEN "A" ELSE "B")
    ELSE IF e.device.psuCount = 1
         THEN (IF e.singlePsuRoundRobin % 2 = 0 THEN "A" ELSE "B")
         ELSE (IF p % 2 = 0 THEN "A" ELSE "B")

\* the pair indices whose PDU on the side can take PSU p at the moment it is
\* processed: tracked load plus device power within the effective capacity, and
\* a legal socket
Eligible(e, p) ==
    { k \in 0..(activePduPairs - 1) :
        /\ (StateAtPsu(e, p)[PduId(TriedSide(e, p), k)].currentLoad
              + e.device.powerRatingPerDevice) * 10000
             <= basePduCapacity * powerFactor * safetyMargin
        /\ LegalSockets(StateAtPsu(e, p)[PduId(TriedSide(e, p), k)], e.device) # {} }

FirstFit(e, p) ==
    IF Eligible(e, p) = {}
    THEN e.device.psuConnections[p] = NullConn
    ELSE /\ e.device.psuConnections[p] # NullConn
         /\ e.device.psuConnections[p].pduId[1] = TriedSide(e, p)
         /\ PairIndex(e.device.psuConnections[p].pduId) \in Eligible(e, p)
         /\ \A k \in Eligible(e, p) : PairIndex(e.device.psuConnections[p].pduId) <= k

\* C23  First-fit completeness of the per-PSU assignment: each PSU that Phase 2
\* or the fallback of Phase 1 assigns is connected to the PDU of the lowest pair
\* index on its side that at that moment has tracked load + device power <=
\* effective capacity and at least one free, type-matching, circuit-admissible
\* socket; its connection is null if and only if no PDU on that side does.
C23_FirstFit ==
    lastOp.op = "handleAutoConnect" =>
      \A n \in 1..Len(WiringLog) :
         ~WiringLog[n].matched =>
            /\ DOMAIN WiringLog[n].device.psuConnections = 0..(WiringLog[n].device.psuCount - 1)
            /\ \A p \in 0..(WiringLog[n].device.psuCount - 1) : FirstFit(WiringLog[n], p)

\* a PSU went to the second pair because the first PDU of its side could not
\* take it, and another PSU stayed null with no PDU of its side able to take it
C23_Witness ==
    /\ lastOp.op = "handleAutoConnect"
    /\ \E n \in 1..Len(WiringLog) : \E p \in Connections(WiringLog[n].device) :
          /\ ~WiringLog[n].matched
          /\ PairIndex(WiringLog[n].device.psuConnections[p].pduId) = 1
          /\ 0 \notin Eligible(WiringLog[n], p)
    /\ \E n \in 1..Len(WiringLog) : \E p \in DOMAIN WiringLog[n].device.psuConnections :
          /\ ~WiringLog[n].matched
          /\ WiringLog[n].device.psuConnections[p] = NullConn
          /\ Eligible(WiringLog[n], p) = {}

\* a dual-PSU device went through the fallback of Phase 1 after another one had
\* been wired: the two PDUs of a pair hold the same sockets and load after
\* matched pairs, so the fallback finds no PDU where the pair search found none
C23_FallbackWitness ==
    /\ lastOp.op = "handleAutoConnect"
    /\ lastOp.matched # {}
    /\ \E n \in 1..Len(WiringLog) :
          /\ ~WiringLog[n].matched
          /\ WiringLog[n].device.psuCount = 2
          /\ Connections(WiringLog[n].device) = {}
          /\ Eligible(WiringLog[n], 0) = {}
          /\ Eligible(WiringLog[n], 1) = {}

-----------------------------------------------------------------------------
(* C24: the order of the sockets after the compaction pass.                *)

SameZone(c, e) ==
    /\ c.pduId = e.pduId
    /\ (c.socketIndex < baseSocketsPerPDU) = (e.socketIndex < baseSocketsPerPDU)

\* within each zone of each PDU the connection of the higher device has the
\* lower socket
TopToBottom(devices) ==
    \A i, j \in 1..Len(devices) :
       (~NotPlaced(devices[i]) /\ ~NotPlaced(devices[j])
          /\ devices[i].uPosition > devices[j].uPosition) =>
         \A p \in Connections(devices[i]) : \A q \in Connections(devices[j]) :
            SameZone(devices[i].psuConnections[p], devices[j].psuConnections[q]) =>
               devices[i].psuConnections[p].socketIndex
                 < devices[j].psuConnections[q].socketIndex

\* two connections of one placed device on one PDU keep the order of their
\* socket indices
SameDeviceOrderKept(before, after) ==
    \A i \in 1..Len(before) : \A p, q \in Connections(before[i]) :
       (/\ ~NotPlaced(before[i])
        /\ before[i].psuConnections[p].pduId = before[i].psuConnections[q].pduId
        /\ before[i].psuConnections[p].socketIndex < before[i].psuConnections[q].socketIndex) =>
          after[i].psuConnections[p].socketIndex < after[i].psuConnections[q].socketIndex

\* C24  Top-to-bottom order after compaction: after optimizeWiring, within each
\* zone of each PDU, of any two connections of placed devices the one whose
\* device has the strictly higher uPosition has the strictly lower socket index;
\* connections of the same device on the same PDU keep their relative socket
\* order.
C24_TopToBottom ==
    [][ lastOp'.op = "optimizeWiring" =>
          /\ TopToBottom(activeDevices')
          /\ SameDeviceOrderKept(activeDevices, activeDevices')
      ]_vars

\* the pass has exchanged the sockets of two devices that share a zone of a PDU
C24_Witness ==
    /\ Compacted
    /\ lastOp.outcome = "reassigned"
    /\ \E i, j \in 1..Len(activeDevices) :
          /\ i # j
          /\ ~NotPlaced(activeDevices[i])
          /\ ~NotPlaced(activeDevices[j])
          /\ \E p \in Connections(activeDevices[i]) : \E q \in Connections(activeDevices[j]) :
                SameZone(activeDevices[i].psuConnections[p], activeDevices[j].psuConnections[q])

\* a compacted list in which one placed device has two PSUs in one zone of a PDU
C24_SameDeviceWitness ==
    /\ Compacted
    /\ \E i \in 1..Len(activeDevices) : \E p, q \in Connections(activeDevices[i]) :
          /\ p # q
          /\ ~NotPlaced(activeDevices[i])
          /\ SameZone(activeDevices[i].psuConnections[p], activeDevices[i].psuConnections[q])

-----------------------------------------------------------------------------
(* C25: the steps of optimizePowerDistribution.                            *)

Grouper == lastOp.op = "optimizePowerDistribution"

\* effectiveWattCapacity, times 10000
PackCapacity == basePduCapacity * powerFactor * safetyMargin

\* the order in which the devices are processed
PackOrder == SortedByPower(activeDevices)

\* pduPairs when n devices have been processed
PairsAfter(n) ==
    AssignAll(SubSeq(PackOrder, 1, n), 1,
              InitialPairs(TotalMaxPower(activeDevices), PackCapacity), PackCapacity)

\* the groups that can take the device: currentLoad + power within the capacity
FittingGroups(groups, device) ==
    { i \in 1..Len(groups) :
        (groups[i].currentLoad + device.powerRatingPerDevice) * 10000 <= PackCapacity }

\* the processing order holds every device once, heaviest first
NonIncreasingOrder ==
    /\ Len(PackOrder) = Len(activeDevices)
    /\ \A i \in 1..Len(activeDevices) :
          Cardinality({ n \in 1..Len(PackOrder) : PackOrder[n] = activeDevices[i] })
            = Cardinality({ j \in 1..Len(activeDevices) : activeDevices[j] = activeDevices[i] })
    /\ \A n \in 1..(Len(PackOrder) - 1) :
          PackOrder[n].powerRatingPerDevice >= PackOrder[n + 1].powerRatingPerDevice

\* max(1, ceil(totalPower / effectiveCap)) empty groups before the first device
PreCreated ==
    /\ Len(PairsAfter(0)) >= 1
    /\ Len(PairsAfter(0)) * PackCapacity >= TotalMaxPower(activeDevices) * 10000
    /\ \/ Len(PairsAfter(0)) = 1
       \/ (Len(PairsAfter(0)) - 1) * PackCapacity < TotalMaxPower(activeDevices) * 10000
    /\ \A i \in 1..Len(PairsAfter(0)) :
          PairsAfter(0)[i].currentLoad = 0 /\ PairsAfter(0)[i].devices = <<>>

\* the device went to group i, and to no other
PlacedIn(before, after, device, i) ==
    /\ Len(after) = Len(before)
    /\ after[i].devices = Append(before[i].devices, device)
    /\ after[i].currentLoad = before[i].currentLoad + device.powerRatingPerDevice
    /\ \A j \in 1..Len(before) : j # i => after[j] = before[j]

\* a group of its own was appended for the device
AppendedFor(before, after, device) ==
    /\ Len(after) = Len(before) + 1
    /\ after[Len(after)].devices = <<device>>
    /\ after[Len(after)].currentLoad = device.powerRatingPerDevice
    /\ \A j \in 1..Len(before) : after[j] = before[j]

\* i is the least loaded of the fitting groups, the earliest created of them on
\* a tie
LeastLoaded(groups, fitting, i) ==
    /\ i \in fitting
    /\ \A j \in fitting :
          \/ groups[i].currentLoad < groups[j].currentLoad
          \/ groups[i].currentLoad = groups[j].currentLoad /\ i <= j

\* the step that processes device n of the order
LeastLoadedStep(before, after, device) ==
    IF FittingGroups(before, device) = {}
    THEN AppendedFor(before, after, device)
    ELSE \E i \in FittingGroups(before, device) :
            /\ LeastLoaded(before, FittingGroups(before, device), i)
            /\ PlacedIn(before, after, device, i)

\* C25  Least-loaded choice in the grouper: optimizePowerDistribution processes
\* the devices in non-increasing power order, pre-creates
\* max(1, ceil(totalPower / effectiveCap)) groups, and places each device in a
\* group whose current load is minimal among the groups with currentLoad +
\* power <= capacity, the earliest-created one on a tie; a new group is appended
\* only when no group fits. The result is the groups that hold a device.
C25_LeastLoaded ==
    Grouper =>
      /\ NonIncreasingOrder
      /\ PreCreated
      /\ \A n \in 1..Len(PackOrder) :
            LeastLoadedStep(PairsAfter(n - 1), PairsAfter(n), PackOrder[n])
      /\ optimization.pduPairs = SelectSeq(PairsAfter(Len(PackOrder)), HasDevices)

\* a run where a device went to a group behind a fuller one it would have
\* fitted in too, and where a group was appended for a device no group could take
C25_Witness ==
    /\ Grouper
    /\ \E n \in 1..Len(PackOrder) :
          \E i \in FittingGroups(PairsAfter(n - 1), PackOrder[n]) :
             \E j \in FittingGroups(PairsAfter(n - 1), PackOrder[n]) :
                /\ j < i
                /\ PairsAfter(n - 1)[j].currentLoad > PairsAfter(n - 1)[i].currentLoad
                /\ PlacedIn(PairsAfter(n - 1), PairsAfter(n), PackOrder[n], i)
    /\ \E n \in 1..Len(PackOrder) :
          /\ FittingGroups(PairsAfter(n - 1), PackOrder[n]) = {}
          /\ Len(PairsAfter(n)) = Len(PairsAfter(n - 1)) + 1

\* a run where two fitting groups were equally loaded and the device went to the
\* earlier one
C25_TieWitness ==
    /\ Grouper
    /\ \E n \in 1..Len(PackOrder) :
          \E i, j \in FittingGroups(PairsAfter(n - 1), PackOrder[n]) :
             /\ i < j
             /\ PairsAfter(n - 1)[i].currentLoad = PairsAfter(n - 1)[j].currentLoad
             /\ PairsAfter(n - 1)[i].currentLoad > 0
             /\ PlacedIn(PairsAfter(n - 1), PairsAfter(n), PackOrder[n], i)

-----------------------------------------------------------------------------
(* C26: a move onto a slot that another device occupies.                   *)

\* device t is a placed device other than the moved one with targetU in its range
Occupies(devices, t, id, targetU) ==
    /\ devices[t].id # id
    /\ devices[t].uPosition # NullU
    /\ devices[t].uPosition - devices[t].uHeight + 1 <= targetU
    /\ targetU <= devices[t].uPosition

\* the list with the uPosition of devices s and t exchanged and nothing else
\* changed
Exchanged(devices, s, t) ==
    [i \in 1..Len(devices) |->
       IF i = s THEN [devices[i] EXCEPT !.uPosition = devices[t].uPosition]
       ELSE IF i = t THEN [devices[i] EXCEPT !.uPosition = devices[s].uPosition]
       ELSE devices[i]]

\* the device at index s is the one with the id
IsDevice(devices, s, id) == devices[s].id = id

\* C26 as stated: a move onto a slot in the range of another placed device T
\* leaves the list unchanged or exchanges exactly the two uPositions, never
\* leaves an overlap, and exchanges only when T exactly occupies the footprint
\* of the moved device, the two being of one height.
C26_SwapOnlyOnExactFootprint ==
    [][ lastOp'.op = "handleMoveDevice" =>
          \A id \in DeviceIds : \A targetU \in 0..(rackSize + 1) :
             \A s, t \in 1..Len(activeDevices) :
                (/\ IsDevice(activeDevices, s, id)
                 /\ Occupies(activeDevices, t, id, targetU)
                 /\ handleMoveDevice(id, targetU)) =>
                   /\ \/ activeDevices' = activeDevices
                      \/ activeDevices' = Exchanged(activeDevices, s, t)
                   /\ LayoutValid(activeDevices')
                   /\ activeDevices' # activeDevices =>
                         activeDevices[s].uHeight = activeDevices[t].uHeight
      ]_vars

\* C26  Move onto an occupied slot swaps or does nothing: handleMoveDevice(id,
\* targetU) with targetU inside the U range of another placed device T leaves
\* the list unchanged or exchanges exactly the uPosition of the moved device
\* and of T; the exchange is applied exactly when the exchanged layout keeps
\* every placed device inside the rack and no two overlapping, whatever the
\* two heights, and so always when the two heights are equal; no outcome has
\* two devices overlapping.
C26_SwapWhenLayoutValid ==
    [][ lastOp'.op = "handleMoveDevice" =>
          \A id \in DeviceIds : \A targetU \in 0..(rackSize + 1) :
             \A s, t \in 1..Len(activeDevices) :
                (/\ IsDevice(activeDevices, s, id)
                 /\ Occupies(activeDevices, t, id, targetU)
                 /\ handleMoveDevice(id, targetU)) =>
                   /\ IF LayoutValid(Exchanged(activeDevices, s, t))
                      THEN activeDevices' = Exchanged(activeDevices, s, t)
                      ELSE activeDevices' = activeDevices
                   /\ LayoutValid(activeDevices')
                   /\ activeDevices[s].uHeight = activeDevices[t].uHeight =>
                         activeDevices' = Exchanged(activeDevices, s, t)
      ]_vars

\* two devices of different heights have just exchanged their positions
C26_Witness ==
    /\ lastOp.op = "handleMoveDevice"
    /\ lastOp.outcome = "swapped"
    /\ \E i, j \in 1..Len(activeDevices) :
          /\ activeDevices[i].uHeight # activeDevices[j].uHeight
          /\ Placed(activeDevices[i])
          /\ Placed(activeDevices[j])

-----------------------------------------------------------------------------
(* C27: what auto-wiring leaves alone.                                     *)

\* the two devices differ in psuConnections at most
SameButConnections(d, e) == [d EXCEPT !.psuConnections = <<>>] = [e EXCEPT !.psuConnections = <<>>]

\* after holds exactly the devices of before, each once, with every field but
\* psuConnections as it was
OnlyConnectionsDiffer(before, after) ==
    /\ Len(after) = Len(before)
    /\ \A i \in 1..Len(before) :
          /\ Cardinality({ j \in 1..Len(after) : after[j].id = before[i].id })
               = Cardinality({ j \in 1..Len(before) : before[j].id = before[i].id })
          /\ \E j \in 1..Len(after) : SameButConnections(before[i], after[j])
    /\ \A j \in 1..Len(after) :
          \E i \in 1..Len(before) : SameButConnections(before[i], after[j])

\* C27  Auto-wire changes only connections: the list runAutoConnect returns
\* holds exactly the input devices (same ids, none added, dropped or
\* duplicated), each with id, psuCount, powerRatingPerDevice, typicalPower,
\* connectionType, uHeight and uPosition (and name) unchanged; only
\* psuConnections differs.
C27_OnlyConnectionsDiffer ==
    [][ lastOp'.op = "handleAutoConnect" => OnlyConnectionsDiffer(activeDevices, activeDevices') ]_vars

\* a wired list that is in another order than the ids, with a connected device
\* and an unplaced one
C27_Witness ==
    /\ lastOp.op = "handleAutoConnect"
    /\ \E i \in 1..Len(activeDevices) : activeDevices[i].id # i
    /\ \E i \in 1..Len(activeDevices) : Connections(activeDevices[i]) # {}
    /\ \E i \in 1..Len(activeDevices) : NotPlaced(activeDevices[i])

-----------------------------------------------------------------------------
(* C28: the layout of the rack over moves, group edits and rack sizes.     *)

\* C28  Rack-range invariant over all operations: in every state reached from a
\* CSV load by device moves, group edits that change uHeight, rack-size changes
\* and auto-wiring, no two placed devices have overlapping U ranges
\* [uPosition - uHeight + 1, uPosition] and every placed device's range lies
\* within [1, rackSize].
C28_RackRangeInvariant == LayoutValid(activeDevices)

\* the same over the device moves and auto-wiring alone: the steps that are
\* neither a group edit nor a rack size keep a valid layout valid
C28_MovesKeepLayout ==
    [][ (LayoutValid(activeDevices)
           /\ lastOp'.op \in {"handleMoveDevice", "handleAutoConnect"})
        => LayoutValid(activeDevices') ]_vars

\* a group edit has just made two placed devices overlap
C28_OverlapByGroupEdit ==
    /\ lastOp.op = "saveGroupEdit"
    /\ \A i \in 1..Len(activeDevices) :
          Placed(activeDevices[i]) =>
             /\ activeDevices[i].uPosition <= rackSize
             /\ activeDevices[i].uPosition - activeDevices[i].uHeight + 1 >= 1
    /\ ~LayoutValid(activeDevices)

\* a smaller rack size has just left a placed device above the top of the rack
C28_OutsideByRackSize ==
    /\ lastOp.op = "handleApplyRackSize"
    /\ \E i \in 1..Len(activeDevices) :
          Placed(activeDevices[i]) /\ activeDevices[i].uPosition > rackSize

-----------------------------------------------------------------------------
(* C29: the pair count in use against the pair count required.             *)

\* C29  Active pair count never below the computed minimum: in every state
\* reached through the plus and minus pair buttons, group edits, configuration
\* changes and CSV loads, activePduPairs >= calculatedPduPairs (the value shown
\* as 'Min Required'), also when the load or the socket demand changes after a
\* manual override was set.
C29_ActiveAtLeastCalculated == activePduPairs >= calculatedPduPairs

\* a group edit has just raised the computed minimum above the override
C29_OverrideBelowMinimum ==
    /\ lastOp.op = "saveGroupEdit"
    /\ manualPduPairs # NoManual
    /\ activePduPairs < calculatedPduPairs

-----------------------------------------------------------------------------
(* C30: auto-wiring against the wiring and the list order it starts from.  *)

\* the orders of a list of n devices
ListOrders(n) == { f \in [1..n -> 1..n] : \A i, j \in 1..n : f[i] = f[j] => i = j }

\* the list in the order f with every psuConnections emptied
Unwired(devices, f) ==
    [r \in 1..Len(devices) |-> [devices[f[r]] EXCEPT !.psuConnections = <<>>]]

\* C30  Auto-wire is idempotent and ignores prior wiring: for a fixed
\* configuration and fixed device positions, the connections handleAutoConnect
\* produces are those it produces for the same devices without any connection,
\* in whatever order the list holds them (manual patches are discarded), and
\* handleAutoConnect applied right after handleAutoConnect leaves the (device,
\* psuIndex) -> (pduId, socketIndex) mapping as it is.
C30_IgnoresPriorWiring ==
    [][ lastOp'.op = "handleAutoConnect" =>
          /\ \A f \in ListOrders(Len(activeDevices)) :
                WiringOf(runAutoConnect(Unwired(activeDevices, f), NewPduState(activePduPairs),
                                        activePduPairs).devices)
                  = WiringOf(activeDevices')
          /\ lastOp.op = "handleAutoConnect" => WiringOf(activeDevices') = WiringOf(activeDevices)
      ]_vars

\* auto-wiring has just replaced a wiring that manual patches had changed, in a
\* list that is not in the order of the ids
C30_Witness ==
    /\ lastOp.op = "handleAutoConnect"
    /\ lastOp.replaced
    /\ WiringOf(activeDevices) # {}
    /\ \E i \in 1..Len(activeDevices) : activeDevices[i].id # i

\* auto-wiring has just run on a list that already held the wiring it returns
C30_RerunWitness ==
    /\ lastOp.op = "handleAutoConnect"
    /\ ~lastOp.replaced
    /\ WiringOf(activeDevices) # {}

=============================================================================
